---- MODULE Spec2Model ----
(***************************************************************************)
(* A model of brainpy/_src/dyn/projections/aligns.py: the nine synaptic    *)
(* projections (VanillaProj, ProjAlignPostMg1/2, ProjAlignPost1/2,         *)
(* ProjAlignPreMg1/2, ProjAlignPre1/2), the alignment units _AlignPre,     *)
(* _AlignPost and _AlignPreMg, and the hook / delay / input registries of  *)
(* the nodes they are wired to.                                            *)
(*                                                                         *)
(* A behaviour is a graph construction (pc = "build": one action per       *)
(* constructor call) followed by a simulation (one action per update call  *)
(* and per hook call), scheduled as the class docstrings schedule it:      *)
(* every projection's update in construction order, then every node.       *)
(***************************************************************************)
EXTENDS Integers, Sequences, FiniteSets, TLC

\* ------------------------------------------------------------------ bounds
MaxProj == 2
MaxSteps == 3

\* --------------------------------------------------------------- constants
NoDelay == -1          \* delay = None
NoVal == -1            \* a value that was never produced
InitVal == 0           \* what a delay buffer is initialised with
DT == 1                \* step size, in tenths of a time unit (dt = 0.1)

\* The nodes of the graph. 1 and 2 are neuron groups (they support delayed
\* read-back and projection input); 3 is a bare DynamicalSystem; 0 stands for
\* an argument that is no DynamicalSystem at all.
Nodes == {1, 2, 3}
NeuNodes == {1, 2}

\* ------------------------------------------------------------ capabilities
\* brainpy._src.mixin: the mixin classes the constructors check for.
NodeCaps(n) ==
  IF n \in NeuNodes THEN {"DynamicalSystem", "AutoDelaySupp", "ReceiveInputProj"}
  ELSE IF n = 3 THEN {"DynamicalSystem"}
  ELSE {}

ClassCaps(cls) ==
  CASE cls = "Expon" -> {"DynamicalSystem", "AlignPost", "AutoDelaySupp"}
    [] cls = "COBA" -> {"DynamicalSystem", "BindCondData"}
    [] cls = "Linear" -> {"DynamicalSystem"}
    [] cls = "PlainDyn" -> {"DynamicalSystem"}
    [] OTHER -> {}

\* An argument syn / out is a descriptor (ParamDescInit, made by cls.desc(...))
\* or an instance of cls.
SynArg(desc, cls, tau) == [desc |-> desc, cls |-> cls, p |-> tau]
OutArg(desc, cls, E) == [desc |-> desc, cls |-> cls, p |-> E]

\* check.is_instance(x, JointType[...]) on an instance argument.
IsInstance(a, caps) == ~a.desc /\ caps \subseteq ClassCaps(a.cls)
\* check.is_instance(x, ParamDescInit[JointType[...]]) on a descriptor.
IsDescOf(a, caps) == a.desc /\ caps \subseteq ClassCaps(a.cls)
IsNode(n, caps) == caps \subseteq NodeCaps(n)
IsComm(c) == "DynamicalSystem" \in ClassCaps(c)

\* ----------------------------------------------------------------- keys
\* ParamDescInit.identifier: the class and its parameters.
Identifier(a) == <<a.cls, a.p>>
NoId == <<"", 0>>

\* Registry keys are strings in the source; here records: the format of the
\* string and the two parts it is made of.
Key(t, a, b) == [t |-> t, a |-> a, b |-> b]
\* self.name as a key
NameKey(name) == Key("name", <<"", name>>, NoId)

_pre_delay_repr == Key("_*_align_pre_spk_delay_*_", NoId, NoId)

\* --------------------------------------------------------------- registries
\* DynamicalSystem.has_/get_/add_bef_update and _aft_update: a dict in
\* insertion order, as a sequence of [key, unit].
HasKey(reg, key) == \E i \in DOMAIN reg : reg[i].key = key
GetKey(reg, key) == reg[CHOOSE i \in DOMAIN reg : reg[i].key = key].unit
AddKey(reg, key, unit) == Append(reg, [key |-> key, unit |-> unit])

Unit(cls, syn, out, dly, acc) ==
  [cls |-> cls, syn |-> syn, out |-> out, dly |-> dly, acc |-> acc]

\* ------------------------------------------------------- numeric stand-ins
\* The communication operator and the synapse dynamics are outside this
\* file; any functions that are not the identity serve.
Comm(x) == 2 * x
Decay(g) == g \div 2
XIn(t) == t + 1
Stamp(n, t) == 10 * n + t + 1

\* The arguments of a constructor call, as the caller passed them.
Call(kind, pre, comm, syn, out, post) ==
  [kind |-> kind, pre |-> pre, comm |-> comm, syn |-> syn, out |-> out, post |-> post]
NoArg == [desc |-> FALSE, cls |-> "", p |-> 0]
NoCall == Call("", 0, "", NoArg, NoArg, 0)

\* What _init_delay is given: a Variable, a ReturnInfo or something else
\* (kind); of a ReturnInfo its batch_or_mode (an int n, a NonBatchingMode, a
\* BatchingMode of batch_size n, or None), its size, its data (a callable, an
\* array or something else), the shape of the array that data is or returns
\* (made), and the number of its axis_names (NoVal: None).
Info(kind, bom, size, data, made, axes) ==
  [kind |-> kind, bom |-> bom, size |-> size, data |-> data, made |-> made, axes |-> axes]
Mode(t, n) == [t |-> t, n |-> n]
NoInfo == Info("", Mode("", 0), <<>>, "", <<>>, NoVal)
\* A delay: VarDelay on the Variable it was given, or DataDelay on a new
\* Variable of a shape, a batch axis (NoVal: None) and axis names.
Delay(cls, target, shape, batch_axis, axes, data_init) ==
  [cls |-> cls, target |-> target, shape |-> shape, batch_axis |-> batch_axis,
   axes |-> axes, data_init |-> data_init]
NoBuffer == Delay("", "", <<>>, NoVal, NoVal, "")

VARIABLES pc, step, pi, ni, hi, projs, syns, outs, delays, bef, aft, inps,
          val, nupd, err, call, info, buffer

vars == <<pc, step, pi, ni, hi, projs, syns, outs, delays, bef, aft, inps,
          val, nupd, err, call, info, buffer>>

Init ==
  /\ pc = "build"
  /\ step = 0
  /\ pi = 1
  /\ ni = 1
  /\ hi = 1
  /\ projs = <<>>
  /\ syns = <<>>
  /\ outs = <<>>
  /\ delays = <<>>
  /\ bef = [n \in Nodes |-> <<>>]
  /\ aft = [n \in Nodes |-> <<>>]
  /\ inps = [n \in Nodes |-> <<>>]
  /\ val = [n \in Nodes |-> InitVal]
  /\ nupd = [n \in Nodes |-> 0]
  /\ err = "none"
  /\ call = NoCall
  /\ info = NoInfo
  /\ buffer = NoBuffer

\* ---------------------------------------------------------------- synapses
\* g: the synapse state; pending: add_current calls not yet seen by a step
\* of the synapse, and pstep: the simulation step of the oldest of them;
\* nupd: how often the synapse was stepped; hist: its state after each step.
NewSyn(a) ==
  [cls |-> a.cls, p |-> a.p, g |-> 0, pending |-> 0, pstep |-> 0, nupd |-> 0,
   hist |-> <<>>]
NewOut(a) == [cls |-> a.cls, p |-> a.p, bound |-> NoVal, nbind |-> 0]

\* AlignPost.add_current(x): accumulate into the synapse state.
AddCurrent(ss, s, x, t) ==
  [ss EXCEPT ![s].g = @ + x,
             ![s].pstep = IF ss[s].pending = 0 THEN t ELSE @,
             ![s].pending = @ + 1]

\* syn(x) / syn(): one step of the synapse dynamics; x = NoVal for no input.
SynStep(ss, s, x) ==
  LET g == Decay(ss[s].g) + (IF x = NoVal THEN 0 ELSE x)
  IN [ss EXCEPT ![s].g = g,
                ![s].pending = 0,
                ![s].nupd = @ + 1,
                ![s].hist = Append(@, g)]

\* BindCondData.bind_cond(v)
BindCond(os, o, v) == [os EXCEPT ![o].bound = v, ![o].nbind = @ + 1]

\* ------------------------------------------------------------------ delays
\* A delay buffer: the owner it monitors (a node or a synapse), the past
\* values, newest first, its taps (name -> offset in steps), its own
\* before-update hooks, and how often it was rotated.
NewDelay(ot, oid) ==
  [ot |-> ot, oid |-> oid, data |-> <<>>, taps |-> <<>>, bef |-> <<>>, nrot |-> 0]

HasTap(d, name) == \E i \in DOMAIN d.taps : d.taps[i].name = name
TapOff(d, name) == d.taps[CHOOSE i \in DOMAIN d.taps : d.taps[i].name = name].off

Returns(d) == [raised |-> "", delay |-> d]
Raises(e) == [raised |-> e, delay |-> NoBuffer]

\* A variant without the check of the initial value's shape.
_init_delayNoShapeCheck(i) ==
  IF i.kind = "Variable" THEN Returns(Delay("VarDelay", "given", i.made, NoVal, i.axes, ""))
  ELSE IF i.kind = "ReturnInfo" THEN
    LET shape == IF i.bom.t = "int" THEN <<i.bom.n>> \o i.size
                 ELSE IF i.bom.t = "NonBatchingMode" THEN i.size
                 ELSE IF i.bom.t = "BatchingMode" THEN <<i.bom.n>> \o i.size
                 ELSE i.size
        batch_axis == IF i.bom.t = "int" THEN 0
                      ELSE IF i.bom.t = "NonBatchingMode" THEN NoVal
                      ELSE IF i.bom.t = "BatchingMode" THEN 0
                      ELSE NoVal
    IN IF i.data \notin {"callable", "array"} THEN Raises("TypeError")
       ELSE IF i.axes # NoVal /\ Len(i.made) # i.axes THEN Raises("AssertionError")
       ELSE Returns(Delay("DataDelay", "new", i.made, batch_axis, i.axes, i.data))
  ELSE Raises("TypeError")

\* _init_delay(info): VarDelay on a Variable; for a ReturnInfo the shape and
\* the batch axis from batch_or_mode and size, the initial value from data
\* (called with the shape, or taken as it is), whose shape must be the shape
\* and whose rank the number of axis names, and DataDelay on a Variable of it.
_init_delay(i) ==
  IF i.kind = "Variable" THEN Returns(Delay("VarDelay", "given", i.made, NoVal, i.axes, ""))
  ELSE IF i.kind = "ReturnInfo" THEN
    LET shape == IF i.bom.t = "int" THEN <<i.bom.n>> \o i.size
                 ELSE IF i.bom.t = "NonBatchingMode" THEN i.size
                 ELSE IF i.bom.t = "BatchingMode" THEN <<i.bom.n>> \o i.size
                 ELSE i.size
        batch_axis == IF i.bom.t = "int" THEN 0
                      ELSE IF i.bom.t = "NonBatchingMode" THEN NoVal
                      ELSE IF i.bom.t = "BatchingMode" THEN 0
                      ELSE NoVal
    IN IF i.data \notin {"callable", "array"} THEN Raises("TypeError")
       ELSE IF i.made # shape THEN Raises("AssertionError")
       ELSE IF i.axes # NoVal /\ Len(i.made) # i.axes THEN Raises("AssertionError")
       ELSE Returns(Delay("DataDelay", "new", i.made, batch_axis, i.axes, i.data))
  ELSE Raises("TypeError")

\* A call of _init_delay(info): the delay it returns, or the error it raises.
InitDelay ==
  /\ pc = "build"
  /\ info # NoInfo
  /\ buffer = NoBuffer
  /\ err = "none"
  /\ LET r == _init_delay(info)
     IN /\ buffer' = r.delay
        /\ err' = IF r.raised = "" THEN "returned" ELSE r.raised
  /\ UNCHANGED <<pc, step, pi, ni, hi, projs, syns, outs, delays, bef, aft, inps,
                 val, nupd, call, info>>

\* A delay argument is None, an int or a float: NoDelay, n for the int n, and
\* Float(n) for the float n.0, which is the same number as the int n.
Float(n) == 100 + n
IsFloat(delay) == delay >= Float(0)
Num(delay) == IF IsFloat(delay) THEN delay - Float(0) ELSE delay
\* str(delay): 'None', '1' for the int, '1.0' for the float.
Str(delay) ==
  IF delay = NoDelay THEN <<"None", 0>>
  ELSE IF IsFloat(delay) THEN <<"float", Num(delay)>>
  ELSE <<"int", delay>>

\* Delay time -> delay steps: None stays None, a time is a multiple of dt.
DelaySteps(delay) == IF delay = NoDelay THEN NoDelay ELSE Num(delay) \div DT

\* Delay.register_entry(name, delay): a no-op for a known name; a larger
\* offset grows the buffer and keeps what it held.
RegisterEntry(d, name, delay) ==
  IF HasTap(d, name) THEN d
  ELSE LET off == DelaySteps(delay)
           grown == IF off > Len(d.data)
                    THEN d.data \o [i \in 1..(off - Len(d.data)) |-> InitVal]
                    ELSE d.data
       IN [d EXCEPT !.taps = Append(@, [name |-> name, off |-> off]),
                    !.data = grown]

\* The live (undelayed) value of the owner of a buffer.
Live(d, vs, ss) == IF d.ot = "node" THEN vs[d.oid] ELSE ss[d.oid].g

\* Delay.at(name): None and 0 read the live value, d >= 1 the value written
\* d rotations ago.
DelayAt(d, name, vs, ss) ==
  LET off == TapOff(d, name)
  IN IF off = NoDelay \/ off = 0 THEN Live(d, vs, ss) ELSE d.data[off]

\* Delay.update(v): write v and advance by one position.
Rotate(d, v) ==
  [d EXCEPT !.data = IF Len(@) = 0 THEN @ ELSE <<v>> \o SubSeq(@, 1, Len(@) - 1),
            !.nrot = @ + 1]


\* ------------------------------------------------------------ construction
\* A projection: its class, its name (names are unique: the n-th projection
\* is named n), self.comm, its refs (0 where the class keeps none), the key
\* it computed, the syn and out arguments it was given, how update is driven
\* (drv: with a value x, or with none), and of its last update: the value x
\* it read, the synapse state g0 it found when it steps a synapse itself,
\* and what it returned; n counts its updates.
Proj(kind, comm, pre, post, delay, syn, out, dly, key, drv) ==
  [kind |-> kind, name |-> Len(projs) + 1, comm |-> comm, pre |-> pre,
   post |-> post, delay |-> delay, syn |-> syn, out |-> out, dly |-> dly,
   key |-> key, drv |-> drv, sarg |-> NoArg, oarg |-> NoArg,
   x |-> NoVal, g0 |-> NoVal, ret |-> NoVal, n |-> 0]

Building == pc = "build" /\ Len(projs) < MaxProj

\* A variant that raises after it has added an input function to every node.
RaiseWired(c) ==
  /\ err' = "capability"
  /\ call' = c
  /\ inps' = [n \in Nodes |-> AddKey(inps[n], NameKey(Len(projs) + 1), 0)]
  /\ UNCHANGED <<info, buffer, pc, step, pi, ni, hi, projs, syns, outs, delays, bef, aft,
                 val, nupd>>

\* check.is_instance fails: the constructor raises before it wires anything.
Raise(c) ==
  /\ err' = "capability"
  /\ call' = c
  /\ UNCHANGED <<info, buffer, pc, step, pi, ni, hi, projs, syns, outs, delays, bef, aft,
                 inps, val, nupd>>

Built(c, p) ==
  /\ projs' = Append(projs, [p EXCEPT !.sarg = c.syn, !.oarg = c.out])
  /\ err' = "none"
  /\ call' = c
  /\ UNCHANGED <<info, buffer, pc, step, pi, ni, hi, val, nupd>>

\* Variants of the key: without the output descriptor, and without the
\* parameters of the descriptors.
PostReprSynOnly(syn, out) == Key("//", Identifier(syn), NoId)
PostReprNoParams(syn, out) == Key("//", <<syn.cls, 0>>, <<out.cls, 0>>)

\* self._post_repr = f'{syn.identifier} // {out.identifier}'
PostRepr(syn, out) == Key("//", Identifier(syn), Identifier(out))

\* A variant that builds a synapse and an output for every projection and
\* puts the new unit in the place of the one registered under the key.
AlignPostWireRebuild(key, syn, out, post, name) ==
  LET u == Unit("_AlignPost", Len(syns) + 1, Len(outs) + 1, 0, 0)
  IN [syns |-> Append(syns, NewSyn(syn)),
      outs |-> Append(outs, NewOut(out)),
      inps |-> [inps EXCEPT ![post] = AddKey(@, NameKey(name), Len(outs) + 1)],
      bef |-> [bef EXCEPT ![post] =
                 IF HasKey(@, key)
                 THEN [i \in DOMAIN @ |->
                         IF @[i].key = key THEN [key |-> key, unit |-> u] ELSE @[i]]
                 ELSE AddKey(@, key, u)]]

\* A variant that registers the output as an input function of post for
\* every projection.
AlignPostWireInpAlways(key, syn, out, post, name) ==
  IF HasKey(bef[post], key)
  THEN [syns |-> syns, outs |-> outs,
        inps |-> [inps EXCEPT ![post] =
                    AddKey(@, NameKey(name), GetKey(bef[post], key).out)],
        bef |-> bef]
  ELSE [syns |-> Append(syns, NewSyn(syn)),
        outs |-> Append(outs, NewOut(out)),
        inps |-> [inps EXCEPT ![post] = AddKey(@, NameKey(name), Len(outs) + 1)],
        bef |-> [bef EXCEPT ![post] =
                   AddKey(@, key, Unit("_AlignPost", Len(syns) + 1, Len(outs) + 1, 0, 0))]]

\* The synapse and output initialization of the managed post-aligned
\* projections: one _AlignPost per key on post, built on first use.
AlignPostWire(key, syn, out, post, name) ==
  IF HasKey(bef[post], key)
  THEN [syns |-> syns, outs |-> outs, inps |-> inps, bef |-> bef]
  ELSE [syns |-> Append(syns, NewSyn(syn)),
        outs |-> Append(outs, NewOut(out)),
        inps |-> [inps EXCEPT ![post] = AddKey(@, NameKey(name), Len(outs) + 1)],
        bef |-> [bef EXCEPT ![post] =
                   AddKey(@, key, Unit("_AlignPost", Len(syns) + 1, Len(outs) + 1, 0, 0))]]

\* Variants of the delay initialization: one that registers the buffer it
\* finds once more, and one that builds a buffer for every projection.
PreDelayWireAgain(pre) ==
  IF HasKey(aft[pre], _pre_delay_repr)
  THEN [delays |-> delays,
        aft |-> [aft EXCEPT ![pre] =
                   Append(@, [key |-> _pre_delay_repr,
                              unit |-> GetKey(aft[pre], _pre_delay_repr)])]]
  ELSE [delays |-> Append(delays, NewDelay("node", pre)),
        aft |-> [aft EXCEPT ![pre] =
                   AddKey(@, _pre_delay_repr, Unit("Delay", 0, 0, Len(delays) + 1, 0))]]
PreDelayWireFresh(pre) ==
  [delays |-> Append(delays, NewDelay("node", pre)),
   aft |-> [aft EXCEPT ![pre] =
              <<[key |-> _pre_delay_repr,
                 unit |-> Unit("Delay", 0, 0, Len(delays) + 1, 0)]>> \o @]]

\* The delay initialization on pre: one buffer per source under
\* _pre_delay_repr, built by _init_delay(pre.return_info()) on first use.
PreDelayWire(pre) ==
  IF HasKey(aft[pre], _pre_delay_repr)
  THEN [delays |-> delays, aft |-> aft]
  ELSE [delays |-> Append(delays, NewDelay("node", pre)),
        aft |-> [aft EXCEPT ![pre] =
                   AddKey(@, _pre_delay_repr, Unit("Delay", 0, 0, Len(delays) + 1, 0))]]

\* A variant that registers the tap under another name.
WithEntryOtherName(ds, d, name, delay) ==
  [ds EXCEPT ![d] = RegisterEntry(@, NameKey(0), delay)]

\* Variants of the registration: a numeric delay one step longer, and no
\* delay registered as a delay of two steps.
WithEntryOneMore(ds, d, name, delay) ==
  [ds EXCEPT ![d] = RegisterEntry(@, NameKey(name),
                                  IF delay = NoDelay THEN delay ELSE delay + DT)]
WithEntryNoneAsTwo(ds, d, name, delay) ==
  [ds EXCEPT ![d] = RegisterEntry(@, NameKey(name),
                                  IF delay = NoDelay THEN 2 * DT ELSE delay)]

\* A variant that builds the buffer anew when the new tap makes it grow.
WithEntryReinit(ds, d, name, delay) ==
  LET r == RegisterEntry(ds[d], NameKey(name), delay)
  IN [ds EXCEPT ![d] =
        IF Len(r.data) > Len(@.data)
        THEN [r EXCEPT !.data = [i \in DOMAIN r.data |-> InitVal]]
        ELSE r]

\* A variant that keeps one offset per buffer: a tap registered on a buffer
\* that has taps gets the offset of the first of them.
WithEntryFirstOffset(ds, d, name, delay) ==
  [ds EXCEPT ![d] =
     IF Len(@.taps) = 0 THEN RegisterEntry(@, NameKey(name), delay)
     ELSE [@ EXCEPT !.taps = Append(@, [name |-> NameKey(name), off |-> @[1].off])]]

\* delay_cls.register_entry(self.name, delay) on buffer d of ds.
WithEntry(ds, d, name, delay) ==
  [ds EXCEPT ![d] = RegisterEntry(@, NameKey(name), delay)]

\* A variant that does not check out.
ChecksVanillaNoOut(comm, out, post) ==
  /\ IsComm(comm)
  /\ IsNode(post, {"DynamicalSystem", "ReceiveInputProj"})

\* ---- VanillaProj.__init__
ChecksVanilla(comm, out, post) ==
  /\ IsComm(comm)
  /\ IsInstance(out, {"DynamicalSystem", "BindCondData"})
  /\ IsNode(post, {"DynamicalSystem", "ReceiveInputProj"})

NewVanillaProj(comm, out, post) ==
  /\ Building
  /\ LET c == Call("VanillaProj", 0, comm, NoArg, out, post)
         name == Len(projs) + 1
     IN IF ~ChecksVanilla(comm, out, post) THEN Raise(c)
        ELSE /\ outs' = Append(outs, NewOut(out))
             /\ inps' = [inps EXCEPT ![post] = AddKey(@, NameKey(name), Len(outs) + 1)]
             /\ Built(c, Proj("VanillaProj", comm, 0, post, NoDelay, 0,
                              Len(outs) + 1, 0, NameKey(name), TRUE))
             /\ UNCHANGED <<syns, delays, bef, aft>>

\* ---- ProjAlignPostMg1.__init__
ChecksPostMg1(comm, syn, out, post) ==
  /\ IsComm(comm)
  /\ IsDescOf(syn, {"DynamicalSystem", "AlignPost"})
  /\ IsDescOf(out, {"DynamicalSystem", "BindCondData"})
  /\ IsNode(post, {"DynamicalSystem", "ReceiveInputProj"})

NewProjAlignPostMg1(comm, syn, out, post) ==
  /\ Building
  /\ LET c == Call("ProjAlignPostMg1", 0, comm, syn, out, post)
         name == Len(projs) + 1
     IN IF ~ChecksPostMg1(comm, syn, out, post) THEN Raise(c)
        ELSE LET key == PostRepr(syn, out)
                 w == AlignPostWire(key, syn, out, post, name)
                 u == GetKey(w.bef[post], key)
             IN /\ syns' = w.syns
                /\ outs' = w.outs
                /\ inps' = w.inps
                /\ bef' = w.bef
                /\ Built(c, Proj("ProjAlignPostMg1", comm, 0, post, NoDelay,
                                 u.syn, u.out, 0, key, TRUE))
                /\ UNCHANGED <<delays, aft>>

\* ---- ProjAlignPostMg2.__init__
ChecksPostMg2(pre, comm, syn, out, post) ==
  /\ IsNode(pre, {"DynamicalSystem", "AutoDelaySupp"})
  /\ IsComm(comm)
  /\ IsDescOf(syn, {"DynamicalSystem", "AlignPost"})
  /\ IsDescOf(out, {"DynamicalSystem", "BindCondData"})
  /\ IsNode(post, {"DynamicalSystem", "ReceiveInputProj"})

NewProjAlignPostMg2(pre, delay, comm, syn, out, post) ==
  /\ Building
  /\ LET c == Call("ProjAlignPostMg2", pre, comm, syn, out, post)
         name == Len(projs) + 1
     IN IF ~ChecksPostMg2(pre, comm, syn, out, post) THEN Raise(c)
        ELSE LET dw == PreDelayWire(pre)
                 d == GetKey(dw.aft[pre], _pre_delay_repr).dly
                 key == PostRepr(syn, out)
                 w == AlignPostWire(key, syn, out, post, name)
                 u == GetKey(w.bef[post], key)
             IN /\ delays' = WithEntry(dw.delays, d, name, delay)
                /\ aft' = dw.aft
                /\ syns' = w.syns
                /\ outs' = w.outs
                /\ inps' = w.inps
                /\ bef' = w.bef
                /\ Built(c, Proj("ProjAlignPostMg2", comm, pre, post, delay,
                                 u.syn, u.out, 0, key, FALSE))

\* An instance argument of an explicit variant: a new instance (id = 0) or
\* one the caller has passed before.
InstOK(heap, id, a) ==
  id = 0 \/ (id \in DOMAIN heap /\ heap[id].cls = a.cls /\ heap[id].p = a.p)
InstId(heap, id) == IF id = 0 THEN Len(heap) + 1 ELSE id
WithSyn(id, a) == IF id = 0 THEN Append(syns, NewSyn(a)) ELSE syns
WithOut(id, a) == IF id = 0 THEN Append(outs, NewOut(a)) ELSE outs

\* A variant that adds no unit when post has one with the synapse given.
NewProjAlignPost1Dedup(comm, syn, sid, out, oid, post) ==
  /\ Building
  /\ InstOK(syns, sid, syn)
  /\ InstOK(outs, oid, out)
  /\ LET c == Call("ProjAlignPost1", 0, comm, syn, out, post)
         name == Len(projs) + 1
         s == InstId(syns, sid)
         o == InstId(outs, oid)
     IN /\ IsComm(comm) /\ IsInstance(syn, {"DynamicalSystem", "AlignPost"})
        /\ IsInstance(out, {"DynamicalSystem", "BindCondData"})
        /\ IsNode(post, {"DynamicalSystem", "ReceiveInputProj"})
        /\ syns' = WithSyn(sid, syn)
        /\ outs' = WithOut(oid, out)
        /\ inps' = [inps EXCEPT ![post] = AddKey(@, NameKey(name), o)]
        /\ bef' = IF \E k \in DOMAIN bef[post] : bef[post][k].unit.syn = s
                  THEN bef
                  ELSE [bef EXCEPT ![post] =
                          AddKey(@, NameKey(name), Unit("_AlignPost", s, o, 0, 0))]
        /\ Built(c, Proj("ProjAlignPost1", comm, 0, post, NoDelay, s, o, 0,
                         NameKey(name), TRUE))
        /\ UNCHANGED <<delays, aft>>

\* ---- ProjAlignPost1.__init__
ChecksPost1(comm, syn, out, post) ==
  /\ IsComm(comm)
  /\ IsInstance(syn, {"DynamicalSystem", "AlignPost"})
  /\ IsInstance(out, {"DynamicalSystem", "BindCondData"})
  /\ IsNode(post, {"DynamicalSystem", "ReceiveInputProj"})

NewProjAlignPost1(comm, syn, sid, out, oid, post) ==
  /\ Building
  /\ InstOK(syns, sid, syn)
  /\ InstOK(outs, oid, out)
  /\ LET c == Call("ProjAlignPost1", 0, comm, syn, out, post)
         name == Len(projs) + 1
         s == InstId(syns, sid)
         o == InstId(outs, oid)
     IN IF ~ChecksPost1(comm, syn, out, post) THEN Raise(c)
        ELSE /\ syns' = WithSyn(sid, syn)
             /\ outs' = WithOut(oid, out)
             /\ inps' = [inps EXCEPT ![post] = AddKey(@, NameKey(name), o)]
             /\ bef' = [bef EXCEPT ![post] =
                          AddKey(@, NameKey(name), Unit("_AlignPost", s, o, 0, 0))]
             /\ Built(c, Proj("ProjAlignPost1", comm, 0, post, NoDelay, s, o, 0,
                              NameKey(name), TRUE))
             /\ UNCHANGED <<delays, aft>>

\* ---- ProjAlignPost2.__init__
ChecksPost2(pre, comm, syn, out, post) ==
  /\ IsNode(pre, {"DynamicalSystem", "AutoDelaySupp"})
  /\ IsComm(comm)
  /\ IsInstance(syn, {"DynamicalSystem", "AlignPost"})
  /\ IsInstance(out, {"DynamicalSystem", "BindCondData"})
  /\ IsNode(post, {"DynamicalSystem", "ReceiveInputProj"})

NewProjAlignPost2(pre, delay, comm, syn, sid, out, oid, post) ==
  /\ Building
  /\ InstOK(syns, sid, syn)
  /\ InstOK(outs, oid, out)
  /\ LET c == Call("ProjAlignPost2", pre, comm, syn, out, post)
         name == Len(projs) + 1
         s == InstId(syns, sid)
         o == InstId(outs, oid)
     IN IF ~ChecksPost2(pre, comm, syn, out, post) THEN Raise(c)
        ELSE LET dw == PreDelayWire(pre)
                 d == GetKey(dw.aft[pre], _pre_delay_repr).dly
             IN /\ delays' = WithEntry(dw.delays, d, name, delay)
                /\ aft' = dw.aft
                /\ syns' = WithSyn(sid, syn)
                /\ outs' = WithOut(oid, out)
                /\ inps' = [inps EXCEPT ![post] = AddKey(@, NameKey(name), o)]
                /\ Built(c, Proj("ProjAlignPost2", comm, pre, post, delay, s, o,
                                 0, NameKey(name), FALSE))
                /\ UNCHANGED bef

\* ---- ProjAlignPreMg1.__init__
ChecksPreMg1(pre, syn, comm, out, post) ==
  /\ IsNode(pre, {"DynamicalSystem"})
  /\ IsDescOf(syn, {"DynamicalSystem", "AutoDelaySupp"})
  /\ IsComm(comm)
  /\ IsInstance(out, {"DynamicalSystem", "BindCondData"})
  /\ IsNode(post, {"DynamicalSystem", "ReceiveInputProj"})

\* self._syn_id = f'{syn.identifier} // Delay'
SynDelayId(syn) == Key("// Delay", Identifier(syn), NoId)

\* A variant that adds the unit without asking whether the key is present.
AlignPreWireNoHas(key, syn, pre) ==
  [syns |-> Append(syns, NewSyn(syn)),
   delays |-> Append(delays, NewDelay("syn", Len(syns) + 1)),
   aft |-> [aft EXCEPT ![pre] =
              AddKey(@, key, Unit("_AlignPre", Len(syns) + 1, 0, Len(delays) + 1, 0))]]

\* The synapse and delay initialization of ProjAlignPreMg1: one _AlignPre
\* (a synapse and a buffer of its output) per key on pre.
AlignPreWire(key, syn, pre) ==
  IF HasKey(aft[pre], key)
  THEN [syns |-> syns, delays |-> delays, aft |-> aft]
  ELSE [syns |-> Append(syns, NewSyn(syn)),
        delays |-> Append(delays, NewDelay("syn", Len(syns) + 1)),
        aft |-> [aft EXCEPT ![pre] =
                   AddKey(@, key, Unit("_AlignPre", Len(syns) + 1, 0, Len(delays) + 1, 0))]]

\* A variant whose key includes the delay.
NewProjAlignPreMg1DelayKey(pre, syn, delay, comm, out, oid, post, drv) ==
  /\ Building
  /\ InstOK(outs, oid, out)
  /\ LET c == Call("ProjAlignPreMg1", pre, comm, syn, out, post)
         name == Len(projs) + 1
         o == InstId(outs, oid)
     IN IF ~ChecksPreMg1(pre, syn, comm, out, post) THEN Raise(c)
        ELSE LET key == Key("// Delay", Identifier(syn), <<"Delay", delay>>)
                 w == AlignPreWire(key, syn, pre)
                 u == GetKey(w.aft[pre], key)
             IN /\ syns' = w.syns
                /\ delays' = WithEntry(w.delays, u.dly, name, delay)
                /\ aft' = w.aft
                /\ outs' = WithOut(oid, out)
                /\ inps' = [inps EXCEPT ![post] = AddKey(@, NameKey(name), o)]
                /\ Built(c, Proj("ProjAlignPreMg1", comm, pre, post, delay,
                                 u.syn, o, u.dly, key, drv))
                /\ UNCHANGED bef

NewProjAlignPreMg1(pre, syn, delay, comm, out, oid, post, drv) ==
  /\ Building
  /\ InstOK(outs, oid, out)
  /\ LET c == Call("ProjAlignPreMg1", pre, comm, syn, out, post)
         name == Len(projs) + 1
         o == InstId(outs, oid)
     IN IF ~ChecksPreMg1(pre, syn, comm, out, post) THEN Raise(c)
        ELSE LET key == SynDelayId(syn)
                 w == AlignPreWire(key, syn, pre)
                 u == GetKey(w.aft[pre], key)
             IN /\ syns' = w.syns
                /\ delays' = WithEntry(w.delays, u.dly, name, delay)
                /\ aft' = w.aft
                /\ outs' = WithOut(oid, out)
                /\ inps' = [inps EXCEPT ![post] = AddKey(@, NameKey(name), o)]
                /\ Built(c, Proj("ProjAlignPreMg1", comm, pre, post, delay,
                                 u.syn, o, u.dly, key, drv))
                /\ UNCHANGED bef

\* ---- ProjAlignPreMg2.__init__
ChecksPreMg2(pre, syn, comm, out, post) ==
  /\ IsNode(pre, {"DynamicalSystem", "AutoDelaySupp"})
  /\ IsDescOf(syn, {"DynamicalSystem", "AutoDelaySupp"})
  /\ IsComm(comm)
  /\ IsInstance(out, {"DynamicalSystem", "BindCondData"})
  /\ IsNode(post, {"DynamicalSystem", "ReceiveInputProj"})

\* A variant of the key without the delay.
DelaySynIdNoDelay(delay, syn) == Key("Delay //", NoId, Identifier(syn))

\* self._syn_id = f'Delay({str(delay)}) // {syn.identifier}'
DelaySynId(delay, syn) == Key("Delay //", Str(delay), Identifier(syn))

\* The synapse initialization of ProjAlignPreMg2: one _AlignPreMg (a read
\* access at `delay` and a synapse) per key, among the before-update hooks of
\* the buffer d of ds.
AlignPreMgWire(ds, d, key, delay, syn) ==
  IF HasKey(ds[d].bef, key)
  THEN [syns |-> syns, delays |-> ds]
  ELSE [syns |-> Append(syns, NewSyn(syn)),
        delays |-> [ds EXCEPT ![d] =
                      [RegisterEntry(@, key, delay) EXCEPT !.bef =
                         AddKey(@, key, Unit("_AlignPreMg", Len(syns) + 1, 0, d, 0))]]]

NewProjAlignPreMg2(pre, delay, syn, comm, out, oid, post) ==
  /\ Building
  /\ InstOK(outs, oid, out)
  /\ LET c == Call("ProjAlignPreMg2", pre, comm, syn, out, post)
         name == Len(projs) + 1
         o == InstId(outs, oid)
     IN IF ~ChecksPreMg2(pre, syn, comm, out, post) THEN Raise(c)
        ELSE LET dw == PreDelayWire(pre)
                 d == GetKey(dw.aft[pre], _pre_delay_repr).dly
                 key == DelaySynId(delay, syn)
                 w == AlignPreMgWire(dw.delays, d, key, delay, syn)
                 u == GetKey(w.delays[d].bef, key)
             IN /\ syns' = w.syns
                /\ delays' = w.delays
                /\ aft' = dw.aft
                /\ outs' = WithOut(oid, out)
                /\ inps' = [inps EXCEPT ![post] = AddKey(@, NameKey(name), o)]
                /\ Built(c, Proj("ProjAlignPreMg2", comm, pre, post, delay,
                                 u.syn, o, 0, key, FALSE))
                /\ UNCHANGED bef

\* ---- ProjAlignPre1.__init__
ChecksPre1(pre, syn, comm, out, post) ==
  /\ IsNode(pre, {"DynamicalSystem"})
  /\ IsInstance(syn, {"DynamicalSystem", "AutoDelaySupp"})
  /\ IsComm(comm)
  /\ IsInstance(out, {"DynamicalSystem", "BindCondData"})
  /\ IsNode(post, {"DynamicalSystem", "ReceiveInputProj"})

NewProjAlignPre1(pre, syn, sid, delay, comm, out, oid, post, drv) ==
  /\ Building
  /\ InstOK(syns, sid, syn)
  /\ InstOK(outs, oid, out)
  /\ LET c == Call("ProjAlignPre1", pre, comm, syn, out, post)
         name == Len(projs) + 1
         s == InstId(syns, sid)
         o == InstId(outs, oid)
         d == Len(delays) + 1
     IN IF ~ChecksPre1(pre, syn, comm, out, post) THEN Raise(c)
        ELSE /\ syns' = WithSyn(sid, syn)
             /\ delays' = WithEntry(Append(delays, NewDelay("syn", s)), d, name, delay)
             /\ aft' = [aft EXCEPT ![pre] =
                          AddKey(@, NameKey(name), Unit("_AlignPre", s, 0, d, 0))]
             /\ outs' = WithOut(oid, out)
             /\ inps' = [inps EXCEPT ![post] = AddKey(@, NameKey(name), o)]
             /\ Built(c, Proj("ProjAlignPre1", comm, pre, post, delay, s, o, d,
                              NameKey(name), drv))
             /\ UNCHANGED bef

\* ---- ProjAlignPre2.__init__
ChecksPre2(pre, syn, comm, out, post) ==
  /\ IsNode(pre, {"DynamicalSystem", "AutoDelaySupp"})
  /\ IsInstance(syn, {"DynamicalSystem", "AutoDelaySupp"})
  /\ IsComm(comm)
  /\ IsInstance(out, {"DynamicalSystem", "BindCondData"})
  /\ IsNode(post, {"DynamicalSystem", "ReceiveInputProj"})

NewProjAlignPre2(pre, delay, syn, sid, comm, out, oid, post) ==
  /\ Building
  /\ InstOK(syns, sid, syn)
  /\ InstOK(outs, oid, out)
  /\ LET c == Call("ProjAlignPre2", pre, comm, syn, out, post)
         name == Len(projs) + 1
         s == InstId(syns, sid)
         o == InstId(outs, oid)
     IN IF ~ChecksPre2(pre, syn, comm, out, post) THEN Raise(c)
        ELSE LET dw == PreDelayWire(pre)
                 d == GetKey(dw.aft[pre], _pre_delay_repr).dly
             IN /\ delays' = WithEntry(dw.delays, d, name, delay)
                /\ aft' = dw.aft
                /\ syns' = WithSyn(sid, syn)
                /\ outs' = WithOut(oid, out)
                /\ inps' = [inps EXCEPT ![post] = AddKey(@, NameKey(name), o)]
                /\ Built(c, Proj("ProjAlignPre2", comm, pre, post, delay, s, o, d,
                                 NameKey(name), FALSE))
                /\ UNCHANGED bef

\* -------------------------------------------------------------- simulation
\* The network's update, as the class docstrings write it: every projection
\* in construction order, then every node; the run ends after MaxSteps steps.
StartRun ==
  /\ pc = "build"
  /\ Len(projs) >= 1
  /\ pc' = "proj"
  /\ pi' = 1
  /\ err' = "none"
  /\ call' = NoCall
  /\ UNCHANGED <<info, buffer, step, ni, hi, projs, syns, outs, delays, bef, aft, inps, val, nupd>>

Updating(kind) == pc = "proj" /\ projs[pi].kind = kind

\* The update read x, found the synapse state g0 and returned r; the next
\* projection follows, or the first node.
Ran(x, g0, r) ==
  /\ projs' = [projs EXCEPT ![pi].x = x, ![pi].g0 = g0, ![pi].ret = r,
                            ![pi].n = @ + 1]
  /\ IF pi = Len(projs)
     THEN pc' = "bef" /\ pi' = 1 /\ ni' = 1 /\ hi' = 1
     ELSE pi' = pi + 1 /\ UNCHANGED <<pc, ni, hi>>
  /\ UNCHANGED <<info, buffer, step, bef, aft, inps, val, nupd, err, call>>

\* The update called a method its object does not have.
UpdateFails ==
  /\ err' = "update"
  /\ pc' = "done"
  /\ UNCHANGED <<info, buffer, step, pi, ni, hi, projs, syns, outs, delays, bef, aft, inps,
                 val, nupd, call>>

Callable(cls) == "DynamicalSystem" \in ClassCaps(cls)
CanBind(o) == "BindCondData" \in ClassCaps(outs[o].cls)
CanAddCurrent(s) == "AlignPost" \in ClassCaps(syns[s].cls)
HasReturnInfo(s) == "AutoDelaySupp" \in ClassCaps(syns[s].cls)

\* pre.get_aft_update(_pre_delay_repr).at(self.name)
PreTap(p) ==
  DelayAt(delays[GetKey(aft[p.pre], _pre_delay_repr).dly], NameKey(p.name), val, syns)

\* The update looked up a hook key or a tap name that was never registered.
LookupFails ==
  /\ err' = "lookup"
  /\ pc' = "done"
  /\ UNCHANGED <<info, buffer, step, pi, ni, hi, projs, syns, outs, delays, bef, aft, inps,
                 val, nupd, call>>

\* pre has the buffer under _pre_delay_repr and the buffer a tap under
\* self.name; refs['delay'] has a tap under self.name.
PreTapKnown(p) ==
  /\ HasKey(aft[p.pre], _pre_delay_repr)
  /\ HasTap(delays[GetKey(aft[p.pre], _pre_delay_repr).dly], NameKey(p.name))
TapKnown(p) == HasTap(delays[p.dly], NameKey(p.name))

\* A variant that steps the synapse with the current.
FeedSynStep(s, current) == SynStep(syns, s, current)

\* self.refs['syn'].add_current(current)
FeedSyn(s, current) == AddCurrent(syns, s, current, step)

\* A variant that registers the output as an input function of post again in
\* every update.
UpdVanillaProjReadd ==
  /\ Updating("VanillaProj")
  /\ LET p == projs[pi]
         x == XIn(step)
         current == Comm(x)
     IN /\ outs' = BindCond(outs, p.out, current)
        /\ inps' = [inps EXCEPT ![p.post] = AddKey(@, NameKey(p.name), p.out)]
        /\ projs' = [projs EXCEPT ![pi].x = x, ![pi].ret = current, ![pi].n = @ + 1]
        /\ IF pi = Len(projs)
           THEN pc' = "bef" /\ pi' = 1 /\ ni' = 1 /\ hi' = 1
           ELSE pi' = pi + 1 /\ UNCHANGED <<pc, ni, hi>>
        /\ UNCHANGED <<info, buffer, step, syns, delays, bef, aft, val, nupd, err, call>>

\* ---- VanillaProj.update(x)
UpdVanillaProj ==
  /\ Updating("VanillaProj")
  /\ LET p == projs[pi]
         x == XIn(step)
         current == Comm(x)
     IN IF ~(Callable(p.comm) /\ CanBind(p.out)) THEN UpdateFails
        ELSE /\ outs' = BindCond(outs, p.out, current)
             /\ Ran(x, NoVal, current)
             /\ UNCHANGED <<syns, delays>>

\* ---- ProjAlignPostMg1.update(x)
UpdProjAlignPostMg1 ==
  /\ Updating("ProjAlignPostMg1")
  /\ LET p == projs[pi]
         x == XIn(step)
         current == Comm(x)
     IN IF ~(Callable(p.comm) /\ CanAddCurrent(p.syn)) THEN UpdateFails
        ELSE /\ syns' = FeedSyn(p.syn, current)
             /\ Ran(x, NoVal, current)
             /\ UNCHANGED <<outs, delays>>

\* ---- ProjAlignPostMg2.update()
UpdProjAlignPostMg2 ==
  /\ Updating("ProjAlignPostMg2")
  /\ LET p == projs[pi]
         x == PreTap(p)
         current == Comm(x)
     IN IF ~PreTapKnown(p) THEN LookupFails
        ELSE IF ~(Callable(p.comm) /\ CanAddCurrent(p.syn)) THEN UpdateFails
        ELSE /\ syns' = FeedSyn(p.syn, current)
             /\ Ran(x, NoVal, current)
             /\ UNCHANGED <<outs, delays>>

\* ---- ProjAlignPost1.update(x)
UpdProjAlignPost1 ==
  /\ Updating("ProjAlignPost1")
  /\ LET p == projs[pi]
         x == XIn(step)
         current == Comm(x)
     IN IF ~(Callable(p.comm) /\ CanAddCurrent(p.syn)) THEN UpdateFails
        ELSE /\ syns' = FeedSyn(p.syn, current)
             /\ Ran(x, NoVal, current)
             /\ UNCHANGED <<outs, delays>>

\* ---- ProjAlignPost2.update()
UpdProjAlignPost2 ==
  /\ Updating("ProjAlignPost2")
  /\ LET p == projs[pi]
         x == PreTap(p)
         ss == SynStep(syns, p.syn, Comm(x))
         g == ss[p.syn].g
     IN IF ~PreTapKnown(p) THEN LookupFails
        ELSE IF ~(Callable(p.comm) /\ Callable(syns[p.syn].cls) /\ CanBind(p.out))
        THEN UpdateFails
        ELSE /\ syns' = ss
             /\ outs' = BindCond(outs, p.out, g)
             /\ Ran(x, syns[p.syn].g, g)
             /\ UNCHANGED delays

\* A variant that reads the tap also when it is given a value.
UpdAlignPreTapOnly(p) ==
  LET x == DelayAt(delays[p.dly], NameKey(p.name), val, syns)
      current == Comm(x)
  IN IF ~(Callable(p.comm) /\ CanBind(p.out)) THEN UpdateFails
     ELSE /\ outs' = BindCond(outs, p.out, current)
          /\ Ran(x, NoVal, current)
          /\ UNCHANGED <<syns, delays>>

\* ---- ProjAlignPreMg1.update(x=None) and ProjAlignPre1.update(x=None)
UpdAlignPre(p) ==
  LET x == IF p.drv THEN XIn(step)
           ELSE DelayAt(delays[p.dly], NameKey(p.name), val, syns)
      current == Comm(x)
  IN IF ~p.drv /\ ~TapKnown(p) THEN LookupFails
     ELSE IF ~(Callable(p.comm) /\ CanBind(p.out)) THEN UpdateFails
     ELSE /\ outs' = BindCond(outs, p.out, current)
          /\ Ran(x, NoVal, current)
          /\ UNCHANGED <<syns, delays>>

UpdProjAlignPreMg1 == Updating("ProjAlignPreMg1") /\ UpdAlignPre(projs[pi])

UpdProjAlignPre1 == Updating("ProjAlignPre1") /\ UpdAlignPre(projs[pi])

\* _get_return(syn.return_info()): the synapse's state, not a step of it.
GetReturn(s) == syns[s].g

\* A variant that steps the synapse in the update.
UpdProjAlignPreMg2Step ==
  /\ Updating("ProjAlignPreMg2")
  /\ LET p == projs[pi]
         ss == SynStep(syns, p.syn, NoVal)
         x == ss[p.syn].g
         current == Comm(x)
     IN IF ~(HasReturnInfo(p.syn) /\ Callable(p.comm) /\ CanBind(p.out))
        THEN UpdateFails
        ELSE /\ syns' = ss
             /\ outs' = BindCond(outs, p.out, current)
             /\ Ran(x, NoVal, current)
             /\ UNCHANGED delays

\* ---- ProjAlignPreMg2.update()
UpdProjAlignPreMg2 ==
  /\ Updating("ProjAlignPreMg2")
  /\ LET p == projs[pi]
         x == GetReturn(p.syn)
         current == Comm(x)
     IN IF ~(HasReturnInfo(p.syn) /\ Callable(p.comm) /\ CanBind(p.out))
        THEN UpdateFails
        ELSE /\ outs' = BindCond(outs, p.out, current)
             /\ Ran(x, NoVal, current)
             /\ UNCHANGED <<syns, delays>>

\* ---- ProjAlignPre2.update()
UpdProjAlignPre2 ==
  /\ Updating("ProjAlignPre2")
  /\ LET p == projs[pi]
         spk == DelayAt(delays[p.dly], NameKey(p.name), val, syns)
         ss == SynStep(syns, p.syn, spk)
         g == Comm(ss[p.syn].g)
     IN IF ~TapKnown(p) THEN LookupFails
        ELSE IF ~(Callable(syns[p.syn].cls) /\ Callable(p.comm) /\ CanBind(p.out))
        THEN UpdateFails
        ELSE /\ syns' = ss
             /\ outs' = BindCond(outs, p.out, g)
             /\ Ran(spk, syns[p.syn].g, g)
             /\ UNCHANGED delays

\* ------------------------------------------------------------------- hooks
\* A variant that binds the synapse's state without stepping the synapse.
AlignPostUpdateNoStep(u) ==
  [syns |-> syns, outs |-> BindCond(outs, u.out, syns[u.syn].g)]

\* _AlignPost.update(): self.out.bind_cond(self.syn())
AlignPostUpdate(u) ==
  LET ss == SynStep(syns, u.syn, NoVal)
  IN [syns |-> ss, outs |-> BindCond(outs, u.out, ss[u.syn].g)]

\* _AlignPreMg.update(): self.syn(self.access()), h a hook of buffer d.
AlignPreMgUpdate(ss, d, h) == SynStep(ss, h.unit.syn, DelayAt(d, h.key, val, ss))

RECURSIVE RunHooks(_, _, _)
RunHooks(ss, d, i) ==
  IF i > Len(d.bef) THEN ss
  ELSE RunHooks(AlignPreMgUpdate(ss, d, d.bef[i]), d, i + 1)

\* Delay.__call__(v): the buffer's before-update hooks, then its rotation.
DelayCall(ss, ds, d, v) ==
  [syns |-> RunHooks(ss, ds[d], 1), delays |-> [ds EXCEPT ![d] = Rotate(@, v)]]

\* A variant that passes the synapse's previous output to the delay.
AlignPreUpdateStale(u, x) ==
  LET ss == SynStep(syns, u.syn, x)
  IN IF u.dly = 0 THEN [syns |-> ss, delays |-> delays]
     ELSE DelayCall(ss, delays, u.dly, syns[u.syn].g)

\* A variant that passes the source's output, not the synapse's, to the delay.
AlignPreUpdateRaw(u, x) ==
  LET ss == SynStep(syns, u.syn, x)
  IN IF u.dly = 0 THEN [syns |-> ss, delays |-> delays]
     ELSE DelayCall(ss, delays, u.dly, x)

\* _AlignPre.update(x): x >> self.syn >> self.delay
AlignPreUpdate(u, x) ==
  LET ss == SynStep(syns, u.syn, x)
  IN IF u.dly = 0 THEN [syns |-> ss, delays |-> delays]
     ELSE DelayCall(ss, delays, u.dly, ss[u.syn].g)

\* DynamicalSystem.__call__ of node ni: its before-update hooks in insertion
\* order, its own update, its after-update hooks in insertion order.
RunBefHook ==
  /\ pc = "bef"
  /\ hi <= Len(bef[ni])
  /\ LET w == AlignPostUpdate(bef[ni][hi].unit)
     IN /\ syns' = w.syns
        /\ outs' = w.outs
  /\ hi' = hi + 1
  /\ UNCHANGED <<info, buffer, pc, step, pi, ni, projs, delays, bef, aft, inps, val, nupd, err, call>>

NodeUpdate ==
  /\ pc = "bef"
  /\ hi > Len(bef[ni])
  /\ val' = [val EXCEPT ![ni] = Stamp(ni, step)]
  /\ nupd' = [nupd EXCEPT ![ni] = @ + 1]
  /\ pc' = "aft"
  /\ hi' = 1
  /\ UNCHANGED <<info, buffer, step, pi, ni, projs, syns, outs, delays, bef, aft, inps, err, call>>

RunAftHook ==
  /\ pc = "aft"
  /\ hi <= Len(aft[ni])
  /\ LET u == aft[ni][hi].unit
         w == IF u.cls = "Delay" THEN DelayCall(syns, delays, u.dly, val[ni])
              ELSE AlignPreUpdate(u, val[ni])
     IN /\ syns' = w.syns
        /\ delays' = w.delays
  /\ hi' = hi + 1
  /\ UNCHANGED <<info, buffer, pc, step, pi, ni, projs, outs, bef, aft, inps, val, nupd, err, call>>

EndNode ==
  /\ pc = "aft"
  /\ hi > Len(aft[ni])
  /\ hi' = 1
  /\ IF ni < Cardinality(Nodes)
     THEN ni' = ni + 1 /\ pc' = "bef" /\ UNCHANGED step
     ELSE /\ ni' = 1
          /\ step' = step + 1
          /\ pc' = IF step + 1 >= MaxSteps THEN "done" ELSE "proj"
  /\ UNCHANGED <<info, buffer, pi, projs, syns, outs, delays, bef, aft, inps, val, nupd, err, call>>

\* The program builds a further projection between two steps of the run.
Pause ==
  /\ pc = "proj"
  /\ pi = 1
  /\ step >= 1
  /\ Len(projs) < MaxProj
  /\ pc' = "build"
  /\ UNCHANGED <<info, buffer, step, pi, ni, hi, projs, syns, outs, delays, bef, aft, inps,
                 val, nupd, err, call>>

Sched == StartRun \/ RunBefHook \/ NodeUpdate \/ RunAftHook \/ EndNode

\* ---------------------------------------------------------- specifications
Expon(tau) == SynArg(FALSE, "Expon", tau)
ExponDesc(tau) == SynArg(TRUE, "Expon", tau)
COBA(E) == OutArg(FALSE, "COBA", E)
COBADesc(E) == OutArg(TRUE, "COBA", E)

Taus == {5, 10}
Es == {0, -80}

\* Spec: every projection class, from neuron group 1 to neuron group 1.
Next ==
  \/ NewVanillaProj("Linear", COBA(0), 1)
  \/ \E tau \in Taus : NewProjAlignPostMg1("Linear", ExponDesc(tau), COBADesc(0), 1)
  \/ \E d \in {NoDelay, 1} :
       NewProjAlignPostMg2(1, d, "Linear", ExponDesc(5), COBADesc(0), 1)
  \/ NewProjAlignPost1("Linear", Expon(5), 0, COBA(0), 0, 1)
  \/ \E d \in {NoDelay, 1} :
       NewProjAlignPost2(1, d, "Linear", Expon(5), 0, COBA(0), 0, 1)
  \/ \E d \in {NoDelay, 1}, drv \in BOOLEAN :
       NewProjAlignPreMg1(1, ExponDesc(5), d, "Linear", COBA(0), 0, 1, drv)
  \/ \E d \in {NoDelay, 1} :
       NewProjAlignPreMg2(1, d, ExponDesc(5), "Linear", COBA(0), 0, 1)
  \/ \E d \in {NoDelay, 1}, drv \in BOOLEAN :
       NewProjAlignPre1(1, Expon(5), 0, d, "Linear", COBA(0), 0, 1, drv)
  \/ \E d \in {NoDelay, 1} :
       NewProjAlignPre2(1, d, Expon(5), 0, "Linear", COBA(0), 0, 1)
  \/ UpdVanillaProj
  \/ UpdProjAlignPostMg1
  \/ UpdProjAlignPostMg2
  \/ UpdProjAlignPost1
  \/ UpdProjAlignPost2
  \/ UpdProjAlignPreMg1
  \/ UpdProjAlignPreMg2
  \/ UpdProjAlignPre1
  \/ UpdProjAlignPre2
  \/ Sched

Spec == Init /\ [][Next]_vars

\* SpecPost: the managed post-aligned projections, onto either neuron group,
\* with every synapse and output descriptor.
NextPost ==
  \/ \E tau \in Taus, E \in Es, post \in NeuNodes :
       NewProjAlignPostMg1("Linear", ExponDesc(tau), COBADesc(E), post)
  \/ \E tau \in Taus, E \in Es, post \in NeuNodes :
       NewProjAlignPostMg2(1, 1, "Linear", ExponDesc(tau), COBADesc(E), post)
  \/ UpdProjAlignPostMg1
  \/ UpdProjAlignPostMg2
  \/ Sched

SpecPost == Init /\ [][NextPost]_vars

\* SpecTap: the projections that read a tap of their own in update, with
\* every delay.
NextTap ==
  \/ \E d \in {NoDelay, 0, 1, 2} :
       NewProjAlignPostMg2(1, d, "Linear", ExponDesc(5), COBADesc(0), 2)
  \/ \E d \in {NoDelay, 0, 1, 2} :
       NewProjAlignPost2(1, d, "Linear", Expon(5), 0, COBA(0), 0, 2)
  \/ \E d \in {NoDelay, 0, 1, 2} :
       NewProjAlignPreMg1(1, ExponDesc(5), d, "Linear", COBA(0), 0, 2, FALSE)
  \/ \E d \in {NoDelay, 0, 1, 2} :
       NewProjAlignPre1(1, Expon(5), 0, d, "Linear", COBA(0), 0, 2, FALSE)
  \/ \E d \in {NoDelay, 0, 1, 2} :
       NewProjAlignPre2(1, d, Expon(5), 0, "Linear", COBA(0), 0, 2)
  \/ UpdProjAlignPostMg2
  \/ UpdProjAlignPost2
  \/ UpdProjAlignPreMg1
  \/ UpdProjAlignPre1
  \/ UpdProjAlignPre2
  \/ Sched

SpecTap == Init /\ [][NextTap]_vars

\* SpecDelay: the projections that share the delay buffer of their source,
\* from either neuron group.
NextDelay ==
  \/ \E pre \in NeuNodes, d \in {NoDelay, 1, 2} :
       NewProjAlignPostMg2(pre, d, "Linear", ExponDesc(5), COBADesc(0), 1)
  \/ \E pre \in NeuNodes, d \in {NoDelay, 1, 2} :
       NewProjAlignPost2(pre, d, "Linear", Expon(5), 0, COBA(0), 0, 1)
  \/ \E pre \in NeuNodes, d \in {NoDelay, 1, 2} :
       NewProjAlignPreMg2(pre, d, ExponDesc(5), "Linear", COBA(0), 0, 1)
  \/ \E pre \in NeuNodes, d \in {NoDelay, 1, 2} :
       NewProjAlignPre2(pre, d, Expon(5), 0, "Linear", COBA(0), 0, 1)
  \/ UpdProjAlignPostMg2
  \/ UpdProjAlignPost2
  \/ UpdProjAlignPreMg2
  \/ UpdProjAlignPre2
  \/ Sched

SpecDelay == Init /\ [][NextDelay]_vars

\* SpecGrow: projections with a tap of their own on the buffer of node 1,
\* built before the run or between two of its steps.
NextGrow ==
  \/ \E d \in {1, 2, 3} :
       NewProjAlignPostMg2(1, d, "Linear", ExponDesc(5), COBADesc(0), 2)
  \/ \E d \in {1, 2, 3} :
       NewProjAlignPost2(1, d, "Linear", Expon(5), 0, COBA(0), 0, 2)
  \/ \E d \in {1, 2, 3} :
       NewProjAlignPre2(1, d, Expon(5), 0, "Linear", COBA(0), 0, 2)
  \/ UpdProjAlignPostMg2
  \/ UpdProjAlignPost2
  \/ UpdProjAlignPre2
  \/ Pause
  \/ Sched

SpecGrow == Init /\ [][NextGrow]_vars

\* SpecExplicit: the explicit variants with a synapse of their own, given a
\* new synapse instance or one that was passed to a constructor before.
NextExplicit ==
  \/ \E sid \in 0..MaxProj, post \in NeuNodes :
       NewProjAlignPost1("Linear", Expon(5), sid, COBA(0), 0, post)
  \/ \E sid \in 0..MaxProj, pre \in NeuNodes :
       NewProjAlignPre1(pre, Expon(5), sid, 1, "Linear", COBA(0), 0, 2, FALSE)
  \/ UpdProjAlignPost1
  \/ UpdProjAlignPre1
  \/ Sched

SpecExplicit == Init /\ [][NextExplicit]_vars

\* SpecManaged: the four managed variants, between either neuron group, with
\* either synapse descriptor.
NextManaged ==
  \/ \E tau \in Taus, post \in NeuNodes :
       NewProjAlignPostMg1("Linear", ExponDesc(tau), COBADesc(0), post)
  \/ \E pre \in NeuNodes, tau \in Taus :
       NewProjAlignPostMg2(pre, 1, "Linear", ExponDesc(tau), COBADesc(0), 2)
  \/ \E pre \in NeuNodes, tau \in Taus, d \in {NoDelay, 1} :
       NewProjAlignPreMg1(pre, ExponDesc(tau), d, "Linear", COBA(0), 0, 1, FALSE)
  \/ \E pre \in NeuNodes, d \in {NoDelay, 1} :
       NewProjAlignPreMg2(pre, d, ExponDesc(5), "Linear", COBA(0), 0, 1)
  \/ UpdProjAlignPostMg1
  \/ UpdProjAlignPostMg2
  \/ UpdProjAlignPreMg1
  \/ UpdProjAlignPreMg2
  \/ Sched

SpecManaged == Init /\ [][NextManaged]_vars

\* SpecPreMg1: ProjAlignPreMg1 from either neuron group, with either synapse
\* descriptor, with no delay or a delay of one or two steps, beside
\* ProjAlignPostMg1 onto neuron group 1.
NextPreMg1 ==
  \/ NewProjAlignPostMg1("Linear", ExponDesc(5), COBADesc(0), 1)
  \/ UpdProjAlignPostMg1
  \/ \E pre \in NeuNodes, tau \in Taus, d \in {NoDelay, 1, 2} :
       NewProjAlignPreMg1(pre, ExponDesc(tau), d, "Linear", COBA(0), 0, 1, FALSE)
  \/ UpdProjAlignPreMg1
  \/ Sched

SpecPreMg1 == Init /\ [][NextPreMg1]_vars

\* SpecPreMg2: ProjAlignPreMg2 from either neuron group, with either synapse
\* descriptor, with no delay, a delay of 0, or a delay of one step given as
\* an int or as a float, beside ProjAlignPostMg1 onto neuron group 1.
NextPreMg2 ==
  \/ NewProjAlignPostMg1("Linear", ExponDesc(5), COBADesc(0), 1)
  \/ UpdProjAlignPostMg1
  \/ \E pre \in NeuNodes, tau \in Taus, d \in {NoDelay, 0, 1, Float(1)} :
       NewProjAlignPreMg2(pre, d, ExponDesc(tau), "Linear", COBA(0), 0, 1)
  \/ UpdProjAlignPreMg2
  \/ Sched

SpecPreMg2 == Init /\ [][NextPreMg2]_vars

\* SpecPlace: the four projections with the synapse on the source side, from
\* neuron group 1 to neuron group 2, with a delay of one or two steps, beside
\* ProjAlignPostMg1 onto neuron group 2.
NextPlace ==
  \/ NewProjAlignPostMg1("Linear", ExponDesc(5), COBADesc(0), 2)
  \/ UpdProjAlignPostMg1
  \/ \E d \in {1, 2} :
       NewProjAlignPreMg1(1, ExponDesc(5), d, "Linear", COBA(0), 0, 2, FALSE)
  \/ \E d \in {1, 2} :
       NewProjAlignPreMg2(1, d, ExponDesc(5), "Linear", COBA(0), 0, 2)
  \/ \E d \in {1, 2} :
       NewProjAlignPre1(1, Expon(5), 0, d, "Linear", COBA(0), 0, 2, FALSE)
  \/ \E d \in {1, 2} :
       NewProjAlignPre2(1, d, Expon(5), 0, "Linear", COBA(0), 0, 2)
  \/ UpdProjAlignPreMg1
  \/ UpdProjAlignPreMg2
  \/ UpdProjAlignPre1
  \/ UpdProjAlignPre2
  \/ Sched

SpecPlace == Init /\ [][NextPlace]_vars

\* SpecInitDelay: _init_delay on every descriptor of at most two dimensions.
Sizes == {<<>>, <<3>>, <<3, 4>>}
Shapes == Sizes \cup {<<2>>, <<2, 3>>, <<2, 3, 4>>, <<4, 3>>}
Modes == {Mode("int", 2), Mode("NonBatchingMode", 0), Mode("BatchingMode", 2), Mode("None", 0)}
Infos ==
  {Info(kind, bom, size, data, made, axes) :
     kind \in {"Variable", "ReturnInfo", "other"}, bom \in Modes, size \in Sizes,
     data \in {"callable", "array", "other"}, made \in Shapes,
     axes \in {NoVal, 1, 2, 3}}

InitInfo ==
  /\ pc = "build"
  /\ step = 0
  /\ pi = 1
  /\ ni = 1
  /\ hi = 1
  /\ projs = <<>>
  /\ syns = <<>>
  /\ outs = <<>>
  /\ delays = <<>>
  /\ bef = [n \in Nodes |-> <<>>]
  /\ aft = [n \in Nodes |-> <<>>]
  /\ inps = [n \in Nodes |-> <<>>]
  /\ val = [n \in Nodes |-> InitVal]
  /\ nupd = [n \in Nodes |-> 0]
  /\ err = "none"
  /\ call = NoCall
  /\ info \in Infos
  /\ buffer = NoBuffer

NextInitDelay == InitDelay

SpecInitDelay == InitInfo /\ [][NextInitDelay]_vars

\* SpecEquiv: the managed post-aligned projections and their explicit
\* counterparts, from neuron group 1 onto either neuron group, without delay
\* or with a delay of two steps.
NextEquiv ==
  \/ \E post \in NeuNodes :
       NewProjAlignPostMg1("Linear", ExponDesc(5), COBADesc(0), post)
  \/ \E post \in NeuNodes :
       NewProjAlignPost1("Linear", Expon(5), 0, COBA(0), 0, post)
  \/ \E post \in NeuNodes, d \in {NoDelay, 2} :
       NewProjAlignPostMg2(1, d, "Linear", ExponDesc(5), COBADesc(0), post)
  \/ \E post \in NeuNodes, d \in {NoDelay, 2} :
       NewProjAlignPost2(1, d, "Linear", Expon(5), 0, COBA(0), 0, post)
  \/ UpdProjAlignPostMg1
  \/ UpdProjAlignPost1
  \/ UpdProjAlignPostMg2
  \/ UpdProjAlignPost2
  \/ Sched

SpecEquiv == Init /\ [][NextEquiv]_vars

\* SpecCaps: every projection class, each called with arguments that fit
\* its signature and with arguments of which one does not.
BadArgs(a) ==
  {[a EXCEPT !.desc = ~a.desc], [a EXCEPT !.cls = "PlainDyn"],
   [a EXCEPT !.cls = "Object"]}

Variants(good) ==
  {good}
  \cup {[good EXCEPT !.pre = n] : n \in {0, 3}}
  \cup {[good EXCEPT !.post = n] : n \in {0, 3}}
  \cup {[good EXCEPT !.comm = "Func"]}
  \cup {[good EXCEPT !.syn = a] : a \in BadArgs(good.syn)}
  \cup {[good EXCEPT !.out = a] : a \in BadArgs(good.out)}

Managed == Variants(Call("", 1, "Linear", ExponDesc(5), COBADesc(0), 1))
HalfManaged == Variants(Call("", 1, "Linear", ExponDesc(5), COBA(0), 1))
Explicit == Variants(Call("", 1, "Linear", Expon(5), COBA(0), 1))

NextCaps ==
  \/ \E a \in Explicit : NewVanillaProj(a.comm, a.out, a.post)
  \/ \E a \in Managed : NewProjAlignPostMg1(a.comm, a.syn, a.out, a.post)
  \/ \E a \in Managed : NewProjAlignPostMg2(a.pre, 1, a.comm, a.syn, a.out, a.post)
  \/ \E a \in Explicit : NewProjAlignPost1(a.comm, a.syn, 0, a.out, 0, a.post)
  \/ \E a \in Explicit : NewProjAlignPost2(a.pre, 1, a.comm, a.syn, 0, a.out, 0, a.post)
  \/ \E a \in HalfManaged :
       NewProjAlignPreMg1(a.pre, a.syn, 1, a.comm, a.out, 0, a.post, FALSE)
  \/ \E a \in HalfManaged :
       NewProjAlignPreMg2(a.pre, 1, a.syn, a.comm, a.out, 0, a.post)
  \/ \E a \in Explicit :
       NewProjAlignPre1(a.pre, a.syn, 0, 1, a.comm, a.out, 0, a.post, FALSE)
  \/ \E a \in Explicit :
       NewProjAlignPre2(a.pre, 1, a.syn, 0, a.comm, a.out, 0, a.post)
  \/ UpdVanillaProj
  \/ UpdProjAlignPostMg1
  \/ UpdProjAlignPostMg2
  \/ UpdProjAlignPost1
  \/ UpdProjAlignPost2
  \/ UpdProjAlignPreMg1
  \/ UpdProjAlignPreMg2
  \/ UpdProjAlignPre1
  \/ UpdProjAlignPre2
  \/ Sched

SpecCaps == Init /\ [][NextCaps]_vars

\* ------------------------------------------------------------------ claims
ManagedPost == {"ProjAlignPostMg1", "ProjAlignPostMg2"}
ManagedOn(n) ==
  {i \in DOMAIN projs : projs[i].kind \in ManagedPost /\ projs[i].post = n}
\* The descriptors the managed projections onto n were given.
DescsOn(n) == {<<projs[i].sarg, projs[i].oarg>> : i \in ManagedOn(n)}
UnitsOn(n) == {i \in DOMAIN bef[n] : bef[n][i].unit.cls = "_AlignPost"}
\* The units on n built from descriptor d (a synapse and an output of its
\* classes and parameters).
UnitsOf(n, d) ==
  {i \in UnitsOn(n) :
     /\ syns[bef[n][i].unit.syn].cls = d[1].cls
     /\ syns[bef[n][i].unit.syn].p = d[1].p
     /\ outs[bef[n][i].unit.out].cls = d[2].cls
     /\ outs[bef[n][i].unit.out].p = d[2].p}
SameDesc(i, j) ==
  /\ projs[i].post = projs[j].post
  /\ projs[i].sarg = projs[j].sarg
  /\ projs[i].oarg = projs[j].oarg

\* C1: on every post node the managed post-aligned constructors leave exactly
\* one _AlignPost unit per distinct (syn, out) descriptor they were given:
\* the units of a node have distinct keys, each descriptor has one unit, and
\* there are as many units as descriptors.
C1_OneUnitPerDescriptor ==
  \A n \in Nodes :
    /\ Cardinality(UnitsOn(n)) = Cardinality(DescsOn(n))
    /\ \A d \in DescsOn(n) : Cardinality(UnitsOf(n, d)) = 1
    /\ \A i, j \in UnitsOn(n) : i # j => bef[n][i].key # bef[n][j].key

\* Two projections with one descriptor on one post, and a second descriptor
\* on the same post.
C1_Witness ==
  \E n \in Nodes :
    /\ Cardinality(ManagedOn(n)) = 2
    /\ Cardinality(DescsOn(n)) = 1
    /\ Cardinality(UnitsOn(n)) = 1

\* C2: two managed post-aligned projections with the same descriptor on the
\* same post hold the same synapse and output instances, and a current that
\* one of them has added and the synapse has not yet stepped over is in the
\* synapse the other one refers to.
C2_SharedInstances ==
  \A n \in Nodes : \A i, j \in ManagedOn(n) :
    SameDesc(i, j) =>
      /\ projs[i].syn = projs[j].syn
      /\ projs[i].out = projs[j].out
      /\ projs[i].n > syns[projs[j].syn].nupd =>
           /\ syns[projs[j].syn].pending >= 1
           /\ syns[projs[j].syn].g >= projs[i].ret

C2_Witness ==
  \E n \in Nodes : \E i, j \in ManagedOn(n) :
    /\ i # j
    /\ projs[i].kind # projs[j].kind
    /\ SameDesc(i, j)
    /\ projs[i].n > syns[projs[j].syn].nupd
    /\ projs[j].n = projs[i].n - 1
    /\ syns[projs[j].syn].g >= projs[i].ret

\* The units on n that hold one of the synapses S.
UnitsWith(n, S) == {i \in UnitsOn(n) : bef[n][i].unit.syn \in S}
OnlyTauDiffers(i, j) ==
  /\ projs[i].post = projs[j].post
  /\ projs[i].pre = projs[j].pre
  /\ projs[i].oarg = projs[j].oarg
  /\ projs[i].sarg.cls = projs[j].sarg.cls
  /\ projs[i].sarg.desc = projs[j].sarg.desc

\* C3: of two managed post-aligned projections on the same pre and post
\* whose descriptors agree but for tau, those with tau = 5 and tau = 10 have
\* two distinct units on post, and those with the same tau have one.
C3_TauInKey ==
  \A n \in Nodes : \A i, j \in ManagedOn(n) :
    (i # j /\ OnlyTauDiffers(i, j)) =>
      LET S == {projs[i].syn, projs[j].syn}
      IN /\ ({projs[i].sarg.p, projs[j].sarg.p} = {5, 10} =>
               projs[i].syn # projs[j].syn /\ Cardinality(UnitsWith(n, S)) = 2)
         /\ (projs[i].sarg.p = projs[j].sarg.p =>
               projs[i].syn = projs[j].syn /\ Cardinality(UnitsWith(n, S)) = 1)

C3_Witness ==
  \E n \in Nodes : \E i, j \in ManagedOn(n) :
    /\ OnlyTauDiffers(i, j)
    /\ projs[i].sarg.p = 5
    /\ projs[j].sarg.p = 10
    /\ Cardinality(UnitsWith(n, {projs[i].syn, projs[j].syn})) = 2

\* The projections that read a tap of their own in update, and the quantity
\* the buffer of the tap monitors: the output of the source node, or of the
\* synapse on the source side.
ReadsNodeTap(p) == p.kind \in {"ProjAlignPostMg2", "ProjAlignPost2", "ProjAlignPre2"}
ReadsSynTap(p) == p.kind \in {"ProjAlignPreMg1", "ProjAlignPre1"} /\ ~p.drv
ReadsTap(p) == ReadsNodeTap(p) \/ ReadsSynTap(p)
\* What the buffer's owner put out in step k (NoVal: nothing yet).
OutputAt(p, k) ==
  IF ReadsNodeTap(p) THEN Stamp(p.pre, k)
  ELSE IF k + 1 <= Len(syns[p.syn].hist) THEN syns[p.syn].hist[k + 1] ELSE NoVal
\* The last update of p was in step p.n - 1.
Delayed(p, d) == IF p.n - 1 >= d THEN OutputAt(p, p.n - 1 - d) ELSE InitVal

\* C4 (as stated): a projection with a numeric delay of d steps reads at step
\* t the output of step t - d, and the initialization value for t < d.
C4_Original ==
  \A i \in DOMAIN projs :
    LET p == projs[i]
    IN (ReadsTap(p) /\ p.n >= 1 /\ p.delay # NoDelay) =>
         p.x = Delayed(p, DelaySteps(p.delay))

\* C4 (amended): for d >= 1 the projection reads at step t the output of
\* step t - d, and the initialization value for t < d; for d = 0 it reads the
\* live value, which in its update is the output of step t - 1 (at t = 0 the
\* initial value).
C4_DelayedTap ==
  \A i \in DOMAIN projs :
    LET p == projs[i]
        d == DelaySteps(p.delay)
    IN (ReadsTap(p) /\ p.n >= 1 /\ p.delay # NoDelay) =>
         /\ d >= 1 => p.x = Delayed(p, d)
         /\ d = 0 => p.x = Delayed(p, 1)

\* In its third update a tap of two steps on the node's buffer has read the
\* output of the first step, and a tap of 0 on a synapse's buffer the output
\* of the second.
C4_Witness ==
  \E i, j \in DOMAIN projs :
    /\ ReadsNodeTap(projs[i]) /\ projs[i].delay = 2 /\ projs[i].n = 3
    /\ projs[i].x = Stamp(projs[i].pre, 0)
    /\ ReadsSynTap(projs[j]) /\ projs[j].delay = 0 /\ projs[j].n = 3
    /\ projs[j].x = syns[projs[j].syn].hist[2]
    /\ projs[j].x > InitVal

\* The value a projection without delay reads in step t = p.n - 1: the
\* driving value, or the live value of the source node or of the synapse on
\* the source side, which is what that put out in step t - 1.
Driven(p) ==
  \/ p.kind \in {"VanillaProj", "ProjAlignPostMg1", "ProjAlignPost1"}
  \/ p.kind \in {"ProjAlignPreMg1", "ProjAlignPre1"} /\ p.drv
Raw(p) == IF Driven(p) THEN XIn(p.n - 1) ELSE Delayed(p, 1)

\* C5 (as stated): the update of a projection without delay returns the
\* communication operator applied to the undelayed input.
C5_Original ==
  \A i \in DOMAIN projs :
    LET p == projs[i]
    IN (p.n >= 1 /\ p.delay = NoDelay) => p.ret = Comm(Raw(p))

\* C5 (amended): the update of a projection without delay reads the undelayed
\* input x and returns comm(x), but ProjAlignPost2 returns syn(comm(x)) and
\* ProjAlignPre2 returns comm(syn(x)), a step of the synapse from the state
\* g0 it was in.
C5_NoDelay ==
  \A i \in DOMAIN projs :
    LET p == projs[i]
    IN (p.n >= 1 /\ p.delay = NoDelay) =>
         /\ p.x = Raw(p)
         /\ p.ret = CASE p.kind = "ProjAlignPost2" -> Decay(p.g0) + Comm(p.x)
                      [] p.kind = "ProjAlignPre2" -> Comm(Decay(p.g0) + p.x)
                      [] OTHER -> Comm(p.x)

\* In their third update, without delay, a ProjAlignPostMg2 has returned
\* comm of the output of the second step, and a ProjAlignPost2 or a
\* ProjAlignPre2 something else than comm of what it read.
C5_Witness ==
  \E i, j \in DOMAIN projs :
    /\ projs[i].kind = "ProjAlignPostMg2" /\ projs[i].delay = NoDelay
    /\ projs[i].n = 3 /\ projs[i].ret = Comm(Stamp(projs[i].pre, 1))
    /\ projs[j].kind \in {"ProjAlignPost2", "ProjAlignPre2"}
    /\ projs[j].delay = NoDelay /\ projs[j].n = 3
    /\ projs[j].g0 > 0 /\ projs[j].ret # Comm(projs[j].x)

\* The delay buffers that monitor node n, and the after-update hooks of n
\* that call buffer d.
NodeBuffers(n) ==
  {d \in DOMAIN delays : delays[d].ot = "node" /\ delays[d].oid = n}
DelayHooks(n, d) ==
  {k \in DOMAIN aft[n] : aft[n][k].unit.cls = "Delay" /\ aft[n][k].unit.dly = d}

\* C6: in every step the before-update hooks of a node run before the node's
\* update (no node has been updated more often than the synapse of one of its
\* _AlignPost units was stepped), the update before the rotation of the
\* node's delay buffer (no buffer was rotated more often than its node was
\* updated), and a current added to the synapse of an _AlignPost unit and not
\* yet stepped over was added in the current step: the unit has consumed the
\* currents of a step before those of the next are added.
C6_HookOrder ==
  \A n \in Nodes :
    /\ nupd[n] \in {step, step + 1}
    /\ \A k \in UnitsOn(n) :
         LET s == syns[bef[n][k].unit.syn]
         IN /\ s.nupd \in {step, step + 1}
            /\ nupd[n] <= s.nupd
            /\ s.pending > 0 => (s.pstep = step /\ s.nupd = step)
            /\ s.nupd = step + 1 => outs[bef[n][k].unit.out].bound = s.g
    /\ \A d \in NodeBuffers(n) :
         /\ delays[d].nrot \in {step, step + 1}
         /\ delays[d].nrot <= nupd[n]

\* In the second step a node was updated after its unit, fed by two
\* projections, has consumed their currents and before its buffer is rotated.
C6_Witness ==
  \E n \in Nodes : \E k \in UnitsOn(n) : \E d \in NodeBuffers(n) :
    /\ step = 1 /\ pc = "aft" /\ ni = n
    /\ nupd[n] = 2
    /\ syns[bef[n][k].unit.syn].nupd = 2
    /\ syns[bef[n][k].unit.syn].g > 0
    /\ Cardinality({i \in ManagedOn(n) : projs[i].syn = bef[n][k].unit.syn}) = 2
    /\ delays[d].nrot = 1

\* C7: the delay buffer of a source node is called by exactly one
\* after-update hook of that node and by none of another node; it is rotated
\* once per step, after the node's update: between steps it was rotated as
\* often as steps were made, and within a step never more often than the
\* node was updated -- whatever taps it has and whichever projections read it.
C7_RotatedOnce ==
  \A n \in Nodes : \A d \in NodeBuffers(n) :
    /\ Cardinality(DelayHooks(n, d)) = 1
    /\ \A m \in Nodes \ {n} : DelayHooks(m, d) = {}
    /\ delays[d].nrot <= nupd[n]
    /\ nupd[n] - delays[d].nrot <= 1
    /\ pc \in {"build", "proj", "done"} => delays[d].nrot = step
    /\ (pc \in {"bef", "aft"} /\ ni > n) => delays[d].nrot = step + 1
    /\ (pc = "bef" /\ ni = n) => delays[d].nrot = step

\* After two steps a buffer with two taps, read by two projections of
\* different classes, was rotated twice.
C7_Witness ==
  \E n \in Nodes : \E d \in NodeBuffers(n) : \E i, j \in DOMAIN projs :
    /\ projs[i].kind # projs[j].kind
    /\ projs[i].pre = n /\ projs[j].pre = n
    /\ Len(delays[d].taps) = 2
    /\ step = 2 /\ pc = "proj"
    /\ delays[d].nrot = 2

\* The before-update hooks, of any node, that hold synapse s.
HooksOf(s) ==
  {nk \in Nodes \X (1..MaxProj + 1) :
     nk[2] \in DOMAIN bef[nk[1]] /\ bef[nk[1]][nk[2]].unit.syn = s}

\* C8: the synapse of a managed post-aligned projection is held by exactly one
\* before-update hook, a hook of post, and is stepped once per step of post:
\* between steps as often as steps were made, within a step at most once more
\* and not less often than post was updated, however many projections have
\* fed it.
C8_SteppedOnce ==
  \A i \in DOMAIN projs :
    projs[i].kind \in ManagedPost =>
      LET p == projs[i]
          s == syns[p.syn]
      IN /\ Cardinality(HooksOf(p.syn)) = 1
         /\ \A nk \in HooksOf(p.syn) : nk[1] = p.post
         /\ pc \in {"build", "proj", "done"} => s.nupd = step
         /\ s.nupd \in {step, step + 1}
         /\ nupd[p.post] <= s.nupd
         /\ s.pending <= Cardinality(ManagedOn(p.post))

\* In the second step two projections have fed one synapse, which was
\* stepped once, in the first step.
C8_Witness ==
  \E i, j \in DOMAIN projs :
    /\ i # j
    /\ projs[i].kind \in ManagedPost /\ projs[j].kind \in ManagedPost
    /\ projs[i].syn = projs[j].syn
    /\ syns[projs[i].syn].pending = 2
    /\ syns[projs[i].syn].nupd = 1
    /\ step = 1

SharesPreDelay ==
  {"ProjAlignPostMg2", "ProjAlignPost2", "ProjAlignPreMg2", "ProjAlignPre2"}
TapsNamed(d, name) == {k \in DOMAIN d.taps : d.taps[k].name = name}

\* C9: every source node has at most one after-update hook under
\* _pre_delay_repr and at most one buffer; every ProjAlignPostMg2,
\* ProjAlignPost2, ProjAlignPreMg2 and ProjAlignPre2 from that source finds
\* this buffer under the key; each ProjAlignPostMg2, ProjAlignPost2 and
\* ProjAlignPre2 has exactly one tap on it under its own name, with its own
\* delay; ProjAlignPre2 holds the buffer as refs['delay'], and the unit of a
\* ProjAlignPreMg2 is a before-update hook of the buffer.
C9_OneBufferPerSource ==
  /\ \A n \in Nodes :
       /\ Cardinality({k \in DOMAIN aft[n] : aft[n][k].key = _pre_delay_repr}) <= 1
       /\ Cardinality(NodeBuffers(n)) <= 1
  /\ \A i \in DOMAIN projs :
       projs[i].kind \in SharesPreDelay =>
         LET p == projs[i]
         IN /\ HasKey(aft[p.pre], _pre_delay_repr)
            /\ LET b == GetKey(aft[p.pre], _pre_delay_repr).dly
               IN /\ NodeBuffers(p.pre) = {b}
                  /\ p.kind # "ProjAlignPreMg2" =>
                       /\ Cardinality(TapsNamed(delays[b], NameKey(p.name))) = 1
                       /\ TapOff(delays[b], NameKey(p.name)) = DelaySteps(p.delay)
                  /\ p.kind = "ProjAlignPre2" => p.dly = b
                  /\ p.kind = "ProjAlignPreMg2" =>
                       /\ HasKey(delays[b].bef, p.key)
                       /\ GetKey(delays[b].bef, p.key).syn = p.syn

\* Two projections of different classes from one source, with different
\* delays: one buffer, two taps.
C9_Witness ==
  \E i, j \in DOMAIN projs :
    /\ projs[i].kind = "ProjAlignPostMg2" /\ projs[j].kind = "ProjAlignPre2"
    /\ projs[i].pre = projs[j].pre
    /\ projs[i].delay = 1 /\ projs[j].delay = 2
    /\ Len(delays) = 1
    /\ Len(delays[1].taps) = 2

\* The capabilities the signature of each constructor asks of each role:
\* pre, comm, syn, out and post; a managed role takes a descriptor of such an
\* object, the others take the object.
TakesPre(kind) == kind \notin {"VanillaProj", "ProjAlignPostMg1", "ProjAlignPost1"}
SigPre(kind) ==
  IF kind \in {"ProjAlignPreMg1", "ProjAlignPre1"} THEN {"DynamicalSystem"}
  ELSE {"DynamicalSystem", "AutoDelaySupp"}
TakesSyn(kind) == kind # "VanillaProj"
SigSyn(kind) ==
  IF kind \in {"ProjAlignPostMg1", "ProjAlignPostMg2", "ProjAlignPost1", "ProjAlignPost2"}
  THEN {"DynamicalSystem", "AlignPost"}
  ELSE {"DynamicalSystem", "AutoDelaySupp"}
SynIsDesc(kind) ==
  kind \in {"ProjAlignPostMg1", "ProjAlignPostMg2", "ProjAlignPreMg1", "ProjAlignPreMg2"}
OutIsDesc(kind) == kind \in {"ProjAlignPostMg1", "ProjAlignPostMg2"}
Fits(a, isDesc, caps) == a.desc = isDesc /\ caps \subseteq ClassCaps(a.cls)

Satisfies(c) ==
  /\ TakesPre(c.kind) => (c.pre \in Nodes /\ SigPre(c.kind) \subseteq NodeCaps(c.pre))
  /\ "DynamicalSystem" \in ClassCaps(c.comm)
  /\ TakesSyn(c.kind) => Fits(c.syn, SynIsDesc(c.kind), SigSyn(c.kind))
  /\ Fits(c.out, OutIsDesc(c.kind), {"DynamicalSystem", "BindCondData"})
  /\ c.post \in Nodes
  /\ {"DynamicalSystem", "ReceiveInputProj"} \subseteq NodeCaps(c.post)

CallOf(p) == Call(p.kind, p.pre, p.comm, p.sarg, p.oarg, p.post)

\* C10: a constructor called with a pre, post, comm, syn or out that lacks a
\* capability its role requires raises; every projection that exists was
\* built from arguments that have them, and no update ever fails for a
\* missing capability.
C10_RaisedAtConstruction ==
  /\ err # "update"
  /\ (call # NoCall /\ ~Satisfies(call)) => err = "capability"
  /\ \A i \in DOMAIN projs : Satisfies(CallOf(projs[i]))

\* After one projection was built, ProjAlignPostMg2 was called with a source
\* that is a DynamicalSystem without delayed read-back, and has raised.
C10_Witness ==
  /\ Len(projs) = 1
  /\ call.kind = "ProjAlignPostMg2"
  /\ call.pre = 3
  /\ ~Satisfies(call)
  /\ err = "capability"

\* The projections that register a tap under their own name on the buffer of
\* their source.
TapsPreDelay == {"ProjAlignPostMg2", "ProjAlignPost2", "ProjAlignPre2"}
\* Projections i and j have registered different offsets on the buffer of one
\* source.
OffsetsDiffer(i, j) ==
  /\ projs[i].kind \in TapsPreDelay /\ projs[j].kind \in TapsPreDelay
  /\ projs[i].pre = projs[j].pre
  /\ DelaySteps(projs[i].delay) # DelaySteps(projs[j].delay)
PreBuffer(p) == delays[GetKey(aft[p.pre], _pre_delay_repr).dly]

\* C11 (as stated): a second projection that registers another offset on the
\* shared buffer of its source raises at construction, so no two projections
\* with different offsets on one buffer exist.
C11_Original ==
  \A i, j \in DOMAIN projs : i < j => ~OffsetsDiffer(i, j)

\* C11 (amended): two projections may register different offsets on the
\* shared buffer of their source; the construction of the second does not
\* raise, and each has its own tap, under its own name, with its own offset.
C11_NoConflict ==
  /\ \A i, j \in DOMAIN projs :
       (i < j /\ OffsetsDiffer(i, j)) =>
         /\ HasTap(PreBuffer(projs[i]), NameKey(projs[i].name))
         /\ HasTap(PreBuffer(projs[j]), NameKey(projs[j].name))
         /\ TapOff(PreBuffer(projs[i]), NameKey(projs[i].name)) = DelaySteps(projs[i].delay)
         /\ TapOff(PreBuffer(projs[j]), NameKey(projs[j].name)) = DelaySteps(projs[j].delay)
  /\ (call.kind \in TapsPreDelay /\ Satisfies(call)) => err = "none"

\* The second projection was built on a buffer that had a tap of another
\* offset, without an error.
C11_Witness ==
  /\ pc = "build"
  /\ Len(projs) = 2
  /\ OffsetsDiffer(1, 2)
  /\ projs[1].delay = 1 /\ projs[2].delay = 2
  /\ call = CallOf(projs[2])
  /\ err = "none"

\* What the taps of buffer b return, by name, in a state with buffers ds.
TapValues(ds, b, vs, ss) ==
  [k \in DOMAIN ds[b].taps |-> DelayAt(ds[b], ds[b].taps[k].name, vs, ss)]
Depth(d) == Len(d.data)
MaxOffset(d) ==
  IF Len(d.taps) = 0 THEN 0
  ELSE CHOOSE m \in {d.taps[k].off : k \in DOMAIN d.taps} :
         \A k \in DOMAIN d.taps : d.taps[k].off <= m

\* C12: a construction that registers a tap on a buffer leaves what every tap
\* the buffer already had returns as it was, also when the buffer grows, and
\* the buffer is always at least as deep as its largest offset.
C12_GrowKeepsTaps ==
  [][(pc = "build" /\ pc' = "build") =>
       \A b \in DOMAIN delays :
         /\ \A k \in DOMAIN delays[b].taps :
              /\ delays'[b].taps[k] = delays[b].taps[k]
              /\ TapValues(delays', b, val', syns')[k] = TapValues(delays, b, val, syns)[k]
         /\ Depth(delays'[b]) >= MaxOffset(delays'[b])
         /\ Depth(delays'[b]) >= Depth(delays[b])]_vars

\* After two steps a second tap, of a larger offset, was registered on a
\* buffer whose first tap returns the output of the first step: the buffer
\* has grown and the first tap returns what it did.
C12_Witness ==
  /\ pc = "build" /\ step = 2
  /\ Len(projs) = 2 /\ projs[1].n = 2 /\ projs[2].n = 0
  /\ projs[1].delay = 2 /\ projs[2].delay = 3
  /\ Depth(PreBuffer(projs[1])) = 3
  /\ DelayAt(PreBuffer(projs[1]), NameKey(projs[1].name), val, syns) = Stamp(1, 0)
  /\ HasTap(PreBuffer(projs[1]), NameKey(projs[2].name))

\* The synapse output of step k - 1, as the synapse computes it from the
\* source's output of that step.
SynOutOf(p, k) ==
  Decay(IF k >= 2 THEN syns[p.syn].hist[k - 1] ELSE 0) + Stamp(p.pre, k - 1)

\* C13: a ProjAlignPreMg1 / ProjAlignPre1 with a delay of one step (0.1 at
\* dt = 0.1) passes to comm, in its update of step t >= 1, the synapse's
\* output of step t - 1, which the synapse has computed from the source's
\* output of step t - 1: a latency of exactly one step; in step 0 it passes
\* the initialization value.
C13_OneStepLatency ==
  \A i \in DOMAIN projs :
    LET p == projs[i]
        t == p.n - 1
    IN (ReadsSynTap(p) /\ p.delay = DT /\ p.n >= 1) =>
         /\ t = 0 => p.x = InitVal
         /\ t >= 1 => (p.x = syns[p.syn].hist[t] /\ p.x = SynOutOf(p, t))
         /\ p.ret = Comm(p.x)

\* In their third update a ProjAlignPreMg1 and a ProjAlignPre1 with a delay
\* of one step have passed on what the synapse made of the source's output of
\* the second step.
C13_Witness ==
  \E i, j \in DOMAIN projs :
    /\ projs[i].kind = "ProjAlignPreMg1" /\ projs[j].kind = "ProjAlignPre1"
    /\ projs[i].delay = DT /\ projs[j].delay = DT
    /\ ~projs[i].drv /\ ~projs[j].drv
    /\ projs[i].n = 3 /\ projs[j].n = 3
    /\ projs[i].x = SynOutOf(projs[i], 2)
    /\ projs[j].x = Decay(Stamp(projs[j].pre, 0)) + Stamp(projs[j].pre, 1)

\* What of a projection is wiring: all but the record of its last update.
Wiring(p) == [p EXCEPT !.x = NoVal, !.g0 = NoVal, !.ret = NoVal, !.n = 0]

\* C14: the update of a projection changes at most the synapse and the output
\* it refers to: the hook registries and the input functions of every node,
\* the delay buffers with their taps, the state of every node, the wiring of
\* every projection and every other synapse and output stay as they were.
C14_UpdateFrame ==
  [][pc = "proj" =>
       /\ bef' = bef /\ aft' = aft /\ inps' = inps
       /\ delays' = delays
       /\ val' = val /\ nupd' = nupd
       /\ DOMAIN projs' = DOMAIN projs
       /\ \A i \in DOMAIN projs : Wiring(projs'[i]) = Wiring(projs[i])
       /\ DOMAIN syns' = DOMAIN syns
       /\ \A s \in DOMAIN syns : s # projs[pi].syn => syns'[s] = syns[s]
       /\ DOMAIN outs' = DOMAIN outs
       /\ \A o \in DOMAIN outs : o # projs[pi].out => outs'[o] = outs[o]]_vars

\* Two projections of different classes have been updated twice; one has
\* added a current to its synapse, the other has bound its output; the nodes
\* have hooks and input functions.
C14_Witness ==
  \E i, j \in DOMAIN projs :
    /\ pc = "bef" /\ step = 1
    /\ projs[i].kind = "ProjAlignPostMg2" /\ projs[j].kind = "ProjAlignPreMg1"
    /\ projs[i].n = 2 /\ projs[j].n = 2
    /\ syns[projs[i].syn].pending = 1
    /\ outs[projs[j].out].nbind = 2
    /\ Len(bef[1]) = 1 /\ Len(aft[1]) = 2 /\ Len(inps[1]) = 2

\* The projections of a class at a node, and the hooks under a key.
Post1On(n) == {i \in DOMAIN projs : projs[i].kind = "ProjAlignPost1" /\ projs[i].post = n}
Pre1On(n) == {i \in DOMAIN projs : projs[i].kind = "ProjAlignPre1" /\ projs[i].pre = n}
Under(reg, key) == {k \in DOMAIN reg : reg[k].key = key}

\* C15: every ProjAlignPost1 has a before-update unit of its own on post,
\* under its own name, with the synapse and output it was given, and every
\* ProjAlignPre1 an after-update unit of its own on pre, under its own name,
\* with the synapse it was given and a delay buffer that no other projection
\* has, also when the synapse is the one of another projection; a node with
\* n such projections has n units.
C15_NoDedup ==
  /\ \A n \in Nodes :
       /\ Len(bef[n]) = Cardinality(Post1On(n))
       /\ Len(aft[n]) = Cardinality(Pre1On(n))
  /\ \A i \in DOMAIN projs :
       LET p == projs[i]
       IN /\ p.kind = "ProjAlignPost1" =>
               /\ Cardinality(Under(bef[p.post], NameKey(p.name))) = 1
               /\ GetKey(bef[p.post], NameKey(p.name)) =
                    Unit("_AlignPost", p.syn, p.out, 0, 0)
          /\ p.kind = "ProjAlignPre1" =>
               /\ Cardinality(Under(aft[p.pre], NameKey(p.name))) = 1
               /\ GetKey(aft[p.pre], NameKey(p.name)) =
                    Unit("_AlignPre", p.syn, 0, p.dly, 0)
               /\ delays[p.dly].ot = "syn" /\ delays[p.dly].oid = p.syn
               /\ \A k \in DOMAIN delays[p.dly].taps :
                    delays[p.dly].taps[k].name = NameKey(p.name)
               /\ \A j \in DOMAIN projs : j # i => projs[j].dly # p.dly

\* Two projections of one class on one node with one synapse instance: two
\* units, and for ProjAlignPre1 two buffers.
C15_Witness ==
  \E i, j \in DOMAIN projs :
    /\ i # j
    /\ projs[i].kind = projs[j].kind
    /\ projs[i].kind = "ProjAlignPre1"
    /\ projs[i].pre = projs[j].pre
    /\ projs[i].syn = projs[j].syn
    /\ Len(aft[projs[i].pre]) = 2
    /\ projs[i].dly # projs[j].dly
    /\ Len(syns) = 1

\* The classes whose update takes the driving value, those whose update
\* takes none, and those whose update takes it or not.
TakesX == {"VanillaProj", "ProjAlignPostMg1", "ProjAlignPost1"}
TakesNone == {"ProjAlignPostMg2", "ProjAlignPost2", "ProjAlignPreMg2", "ProjAlignPre2"}
TakesXOrNone == {"ProjAlignPreMg1", "ProjAlignPre1"}
\* The buffer on which p has registered a tap under its name, and what the
\* tap returns.
OwnBuffer(p) == IF p.kind \in TakesXOrNone THEN delays[p.dly] ELSE PreBuffer(p)
HasOwnTap(p) == HasTap(OwnBuffer(p), NameKey(p.name))
OwnTap(p) == DelayAt(OwnBuffer(p), NameKey(p.name), val, syns)
\* The update of p (before) to q (after) has passed q.x to comm, bound the
\* result into out and returned it.
BoundAndReturned(p, q) ==
  /\ q.ret = Comm(q.x)
  /\ outs'[p.out].bound = q.ret
  /\ outs'[p.out].nbind = outs[p.out].nbind + 1

\* C16 (as stated): an update with a value uses the value; an update without
\* uses the value of the tap the projection has registered, in every class.
C16_Original ==
  [][pc = "proj" =>
       LET p == projs[pi]
           q == projs'[pi]
       IN /\ (p.kind \in TakesX \/ (p.kind \in TakesXOrNone /\ p.drv)) =>
               q.x = XIn(step)
          /\ (p.kind \in TakesNone \/ (p.kind \in TakesXOrNone /\ ~p.drv)) =>
               (HasOwnTap(p) /\ q.x = OwnTap(p))
          /\ p.kind \in TakesXOrNone => BoundAndReturned(p, q)]_vars

\* C16 (amended): an update with a value uses the value; an update without
\* uses the value of the tap the projection has registered, except in
\* ProjAlignPreMg2, which has no tap of its own and uses the return value of
\* its synapse; ProjAlignPreMg1 and ProjAlignPre1 use exactly x when it is
\* given and exactly the tap when not, and bind and return comm of it.
C16_UpdateArgs ==
  [][pc = "proj" =>
       LET p == projs[pi]
           q == projs'[pi]
       IN /\ q.n = p.n + 1
          /\ (p.kind \in TakesX \/ (p.kind \in TakesXOrNone /\ p.drv)) =>
               q.x = XIn(step)
          /\ (p.kind \in TakesNone \ {"ProjAlignPreMg2"}
              \/ (p.kind \in TakesXOrNone /\ ~p.drv)) =>
               (HasOwnTap(p) /\ q.x = OwnTap(p))
          /\ p.kind = "ProjAlignPreMg2" =>
               (~HasOwnTap(p) /\ q.x = syns[p.syn].g)
          /\ p.kind \in TakesXOrNone => BoundAndReturned(p, q)]_vars

\* In the second step a ProjAlignPreMg1 was updated with a value and has
\* bound comm of it, and a ProjAlignPre1 was updated without and has bound
\* comm of the synapse's output of the first step, which its tap returned.
C16_Witness ==
  \E i, j \in DOMAIN projs :
    /\ projs[i].kind = "ProjAlignPreMg1" /\ projs[i].drv /\ projs[i].n = 2
    /\ projs[i].x = XIn(1)
    /\ projs[i].ret = Comm(XIn(1))
    /\ projs[j].kind = "ProjAlignPre1" /\ ~projs[j].drv /\ projs[j].n = 2
    /\ projs[j].x = syns[projs[j].syn].hist[1]
    /\ projs[j].x # XIn(1)
    /\ outs[projs[j].out].bound = Comm(projs[j].x)

\* No key occurs twice in a registry.
Unique(reg) == \A k, l \in DOMAIN reg : reg[k].key = reg[l].key => k = l

\* C17: no construction of a managed projection adds a key to a registry that
\* has it: in the before-update and after-update hooks and the input
\* functions of every node and in the before-update hooks of every delay
\* buffer every key occurs once, and no constructor has failed.
C17_NoDuplicateKey ==
  /\ \A n \in Nodes : Unique(bef[n]) /\ Unique(aft[n]) /\ Unique(inps[n])
  /\ \A d \in DOMAIN delays :
       /\ Unique(delays[d].bef)
       /\ \A k, l \in DOMAIN delays[d].taps :
            delays[d].taps[k].name = delays[d].taps[l].name => k = l
  /\ err = "none"

\* Two managed projections of one source and one descriptor: the second has
\* found the key of the first.
C17_Witness ==
  /\ Len(projs) = 2
  /\ projs[1].kind = "ProjAlignPreMg1" /\ projs[2].kind = "ProjAlignPreMg1"
  /\ projs[1].pre = projs[2].pre
  /\ projs[1].key = projs[2].key
  /\ projs[1].delay # projs[2].delay
  /\ Len(aft[projs[1].pre]) = 1
  /\ call = CallOf(projs[2])


PreMg1s == {i \in DOMAIN projs : projs[i].kind = "ProjAlignPreMg1"}
\* The after-update _AlignPre units of n under key.
AlignPresOn(n, key) ==
  {k \in DOMAIN aft[n] : aft[n][k].key = key /\ aft[n][k].unit.cls = "_AlignPre"}

\* C18: every source node has at most one after-update _AlignPre per key
\* `syn.identifier // Delay`; two ProjAlignPreMg1 hold the same synapse and the
\* same buffer as refs['syn'] and refs['delay'] exactly when they have the
\* same source and descriptors of the same identifier, whatever their delays;
\* these are the synapse and the buffer of the unit under the key, and each
\* projection has exactly one tap on the buffer, under its own name, with its
\* own delay.
C18_OneAlignPrePerKey ==
  /\ \A n \in Nodes : \A k \in DOMAIN aft[n] :
       Cardinality(AlignPresOn(n, aft[n][k].key)) <= 1
  /\ \A i \in PreMg1s :
       LET p == projs[i]
       IN /\ p.key = SynDelayId(p.sarg)
          /\ Cardinality(AlignPresOn(p.pre, p.key)) = 1
          /\ GetKey(aft[p.pre], p.key).syn = p.syn
          /\ GetKey(aft[p.pre], p.key).dly = p.dly
          /\ delays[p.dly].ot = "syn" /\ delays[p.dly].oid = p.syn
          /\ Cardinality(TapsNamed(delays[p.dly], NameKey(p.name))) = 1
          /\ TapOff(delays[p.dly], NameKey(p.name)) = DelaySteps(p.delay)
  /\ \A i, j \in PreMg1s :
       LET same == /\ projs[i].pre = projs[j].pre
                   /\ Identifier(projs[i].sarg) = Identifier(projs[j].sarg)
       IN /\ same <=> projs[i].syn = projs[j].syn
          /\ same <=> projs[i].dly = projs[j].dly

\* Two ProjAlignPreMg1 of one source and one descriptor, with delays of one
\* and two steps, on one synapse and one buffer, have read different values
\* from their taps.
C18_Witness ==
  \E i, j \in PreMg1s :
    /\ projs[i].pre = projs[j].pre
    /\ projs[i].sarg = projs[j].sarg
    /\ projs[i].delay = 1 /\ projs[j].delay = 2
    /\ projs[i].syn = projs[j].syn /\ projs[i].dly = projs[j].dly
    /\ Len(aft[projs[i].pre]) = 1
    /\ projs[i].n = 3 /\ projs[j].n = 3
    /\ projs[i].x # projs[j].x


PreMg2s == {i \in DOMAIN projs : projs[i].kind = "ProjAlignPreMg2"}
\* Two ProjAlignPreMg2 from one source with descriptors of one identifier.
SamePreSyn(i, j) ==
  /\ projs[i].pre = projs[j].pre
  /\ Identifier(projs[i].sarg) = Identifier(projs[j].sarg)
\* Delay arguments that are equal: both None, or the same number.
SameDelay(a, b) ==
  \/ a = NoDelay /\ b = NoDelay
  \/ a # NoDelay /\ b # NoDelay /\ Num(a) = Num(b)
\* The _AlignPreMg units under key among the before-update hooks of buffer d.
AlignPreMgsOn(d, key) ==
  {k \in DOMAIN d.bef : d.bef[k].key = key /\ d.bef[k].unit.cls = "_AlignPreMg"}

\* C19 (as stated): two ProjAlignPreMg2 from one source with one synapse
\* descriptor hold the same synapse exactly when their delay arguments are
\* equal.
C19_Original ==
  \A i, j \in PreMg2s :
    SamePreSyn(i, j) =>
      (projs[i].syn = projs[j].syn <=> SameDelay(projs[i].delay, projs[j].delay))

\* C19 (amended): the unit of a ProjAlignPreMg2 is the one _AlignPreMg under
\* `Delay(<str(delay)>) // syn.identifier` among the before-update hooks of
\* the source's shared buffer, and refs['syn'] is its synapse; two projections
\* from one source with one synapse descriptor hold the same synapse exactly
\* when the texts of their delay arguments are equal: None and 0 give two
\* synapses, and so do the int 1 and the float 1.0.
C19_SharedByDelayText ==
  /\ \A i \in PreMg2s :
       LET p == projs[i]
           d == PreBuffer(p)
       IN /\ p.key = DelaySynId(p.delay, p.sarg)
          /\ Cardinality(AlignPreMgsOn(d, p.key)) = 1
          /\ GetKey(d.bef, p.key).syn = p.syn
          /\ TapOff(d, p.key) = DelaySteps(p.delay)
  /\ \A i, j \in PreMg2s :
       /\ SamePreSyn(i, j) =>
            (projs[i].syn = projs[j].syn <=> Str(projs[i].delay) = Str(projs[j].delay))
       /\ (SamePreSyn(i, j) /\ projs[i].delay = NoDelay /\ projs[j].delay = 0) =>
            projs[i].syn # projs[j].syn
       /\ ~SamePreSyn(i, j) => projs[i].syn # projs[j].syn

\* Two ProjAlignPreMg2 from one source with one descriptor, with a delay of
\* one step given as the int 1 and as the float 1.0, have two synapses, which
\* have been fed the same values.
C19_Witness ==
  \E i, j \in PreMg2s :
    /\ SamePreSyn(i, j)
    /\ projs[i].delay = 1 /\ projs[j].delay = Float(1)
    /\ projs[i].syn # projs[j].syn
    /\ Len(PreBuffer(projs[i]).bef) = 2
    /\ projs[i].n = 3 /\ projs[j].n = 3
    /\ projs[i].x = projs[j].x
    /\ projs[i].x # InitVal


\* Buffer d holds the outputs of its synapse: in cell k what the synapse put
\* out k - 1 updates before its last.
StoresSynOutput(d) ==
  /\ d.ot = "syn"
  /\ d.nrot = Len(syns[d.oid].hist)
  /\ \A k \in DOMAIN d.data :
       d.data[k] = IF d.nrot >= k THEN syns[d.oid].hist[d.nrot - k + 1] ELSE InitVal
\* Buffer d holds the raw outputs of its node.
StoresRawOutput(d) ==
  /\ d.ot = "node"
  /\ \A k \in DOMAIN d.data :
       d.data[k] = IF d.nrot >= k THEN Stamp(d.oid, d.nrot - k) ELSE InitVal
\* What a tap of off >= 1 steps on the buffer of node n gives in step t.
RawBack(n, t, off) == IF t >= off THEN Stamp(n, t - off) ELSE InitVal
\* The synapse of p before its k-th update.
SynBefore(p, k) == IF k >= 2 THEN syns[p.syn].hist[k - 1] ELSE 0

\* C20: in ProjAlignPreMg1 / ProjAlignPre1 the synapse is fed the source's
\* output and the buffer stores the synapse's output, so update() reads a
\* delayed synaptic value and passes it to comm; in ProjAlignPreMg2 /
\* ProjAlignPre2 the buffer stores the source's raw output, the synapse is
\* fed the value read back from the tap, and comm sees the synapse's value.
C20_DelayPlacement ==
  \A i \in DOMAIN projs :
    LET p == projs[i]
        off == DelaySteps(p.delay)
    IN /\ p.kind \in {"ProjAlignPreMg1", "ProjAlignPre1"} =>
            /\ delays[p.dly].oid = p.syn
            /\ StoresSynOutput(delays[p.dly])
            /\ \A k \in DOMAIN syns[p.syn].hist : syns[p.syn].hist[k] = SynOutOf(p, k)
            /\ p.n >= 1 =>
                 /\ p.x = (IF p.n - 1 >= off THEN syns[p.syn].hist[p.n - off] ELSE InitVal)
                 /\ p.ret = Comm(p.x)
       /\ p.kind = "ProjAlignPre2" =>
            /\ delays[p.dly].oid = p.pre
            /\ StoresRawOutput(delays[p.dly])
            /\ p.n >= 1 =>
                 /\ p.x = RawBack(p.pre, p.n - 1, off)
                 /\ p.ret = Comm(Decay(p.g0) + p.x)
       /\ p.kind = "ProjAlignPreMg2" =>
            /\ PreBuffer(p).oid = p.pre
            /\ StoresRawOutput(PreBuffer(p))
            /\ \A k \in DOMAIN syns[p.syn].hist :
                 syns[p.syn].hist[k] = Decay(SynBefore(p, k)) + RawBack(p.pre, k - 1, off)
            /\ p.n >= 1 =>
                 /\ p.x = SynBefore(p, p.n)
                 /\ p.ret = Comm(p.x)

\* In their third update, with a delay of one step, a ProjAlignPreMg1 or
\* ProjAlignPre1 has read the synapse's output of the second step, which is
\* not the source's, and a ProjAlignPre2 the source's output of the second
\* step, and has passed a step of its synapse on it to comm.
C20_Witness ==
  \E i, j \in DOMAIN projs :
    /\ projs[i].kind \in {"ProjAlignPreMg1", "ProjAlignPre1"}
    /\ projs[i].delay = 1 /\ projs[i].n = 3
    /\ projs[i].x = syns[projs[i].syn].hist[2]
    /\ projs[i].x # Stamp(projs[i].pre, 1)
    /\ delays[projs[i].dly].data[1] = projs[i].x
    /\ projs[j].kind = "ProjAlignPre2"
    /\ projs[j].delay = 1 /\ projs[j].n = 3
    /\ projs[j].x = Stamp(projs[j].pre, 1)
    /\ projs[j].g0 > 0
    /\ projs[j].ret = Comm(Decay(projs[j].g0) + projs[j].x)


\* What the read access of a ProjAlignPreMg2 unit on the buffer of node n
\* gives in the hooks of step t: without delay the output of step t, which n
\* has just put out; with off >= 1 the output of step t - off, which is in
\* cell off as long as the buffer has not rotated in step t.
Accessed(n, t, off) == IF off = NoDelay \/ off = 0 THEN Stamp(n, t) ELSE RawBack(n, t, off)

Called == info # NoInfo /\ err # "none"
\* batch_or_mode is an int or a batching mode.
Batched(i) == i.bom.t \in {"int", "BatchingMode"}
\* The shape the descriptor declares.
Declared(i) == IF Batched(i) THEN <<i.bom.n>> \o i.size ELSE i.size
\* The descriptor is one _init_delay refuses.
Refused(i) ==
  \/ i.kind \notin {"Variable", "ReturnInfo"}
  \/ /\ i.kind = "ReturnInfo"
     /\ \/ i.data \notin {"callable", "array"}
        \/ i.made # Declared(i)
        \/ i.axes # NoVal /\ Len(i.made) # i.axes

\* C22: _init_delay wraps a Variable as it is; for a ReturnInfo it returns a
\* buffer of shape (batch,) + size with batch axis 0 when batch_or_mode is an
\* int or a batching mode, and of shape size with no batch axis otherwise; it
\* raises a TypeError when the descriptor is neither kind or its data is
\* neither a factory nor an array, and fails when the initial value's shape
\* is not the declared shape or its rank not the number of axis names; when
\* it fails it returns no buffer.
C22_InitDelay ==
  Called =>
    /\ info.kind = "Variable" =>
         err = "returned" /\ buffer.cls = "VarDelay" /\ buffer.target = "given"
    /\ (info.kind = "ReturnInfo" /\ ~Refused(info)) =>
         /\ err = "returned"
         /\ buffer.cls = "DataDelay"
         /\ buffer.shape = Declared(info)
         /\ buffer.batch_axis = (IF Batched(info) THEN 0 ELSE NoVal)
    /\ Refused(info) <=> err \in {"TypeError", "AssertionError"}
    /\ (info.kind \notin {"Variable", "ReturnInfo"}
          \/ (info.kind = "ReturnInfo" /\ info.data \notin {"callable", "array"})) =>
         err = "TypeError"
    /\ err # "returned" <=> buffer = NoBuffer

\* _init_delay has refused a ReturnInfo whose factory returned an array
\* without the batch dimension that a batching mode declares.
C22_Witness ==
  /\ Called
  /\ info.kind = "ReturnInfo" /\ info.data = "callable"
  /\ info.bom.t = "BatchingMode"
  /\ info.size = <<3>> /\ info.made = <<3>>
  /\ err = "AssertionError"
  /\ buffer = NoBuffer


\* The input functions of n that are the output o.
InpsOf(n, o) == {m \in DOMAIN inps[n] : inps[n][m].unit = o}

\* C23: the managed post-aligned projections have added to every post node as
\* many input functions as they have distinct descriptors on it; the output
\* of every _AlignPost unit is an input function of its node exactly once,
\* under the name of the first projection of its descriptor, and a projection
\* that has found its unit has added none.
C23_OneInputPerUnit ==
  \A n \in Nodes :
    /\ Len(inps[n]) = Cardinality(DescsOn(n))
    /\ \A k \in UnitsOn(n) : Cardinality(InpsOf(n, bef[n][k].unit.out)) = 1
    /\ \A i \in ManagedOn(n) :
         /\ Cardinality(InpsOf(n, projs[i].out)) = 1
         /\ HasKey(inps[n], NameKey(projs[i].name)) <=>
              \A j \in ManagedOn(n) : SameDesc(i, j) => i <= j

\* Two managed projections with one descriptor onto one node have both bound
\* their shared output, which is one input function of the node.
C23_Witness ==
  \E n \in Nodes : \E i, j \in ManagedOn(n) :
    /\ i < j
    /\ SameDesc(i, j)
    /\ projs[i].out = projs[j].out
    /\ Len(inps[n]) = 1
    /\ ~HasKey(inps[n], NameKey(projs[j].name))
    /\ projs[j].n >= 1
    /\ outs[projs[j].out].nbind >= 1


\* A constructor has raised in this step.
Rejected == pc = "build" /\ pc' = "build" /\ err' = "capability"

\* C24: a constructor that rejects an argument leaves the hooks, the input
\* functions, the delay buffers with their taps, the synapses, the outputs
\* and the projections as they were; the projections built before are
\* updated in every step of the run, and no update fails.
C24_RejectedLeavesNoTrace ==
  [][/\ Rejected => UNCHANGED <<bef, aft, inps, delays, syns, outs, projs>>
     /\ err' # "update"
     /\ pc' = "done" => \A i \in DOMAIN projs' : projs'[i].n = MaxSteps]_vars

\* A ProjAlignPostMg2 has been built, with its unit, its input function, its
\* buffer and its tap, and the constructor called after it has raised.
C24_Witness ==
  /\ pc = "build"
  /\ err = "capability"
  /\ ~Satisfies(call)
  /\ Len(projs) = 1
  /\ projs[1].kind = "ProjAlignPostMg2"
  /\ call.kind = "ProjAlignPre2"
  /\ call.pre = projs[1].pre
  /\ Len(bef[projs[1].post]) = 1
  /\ Len(inps[projs[1].post]) = 1
  /\ Len(aft[projs[1].pre]) = 1
  /\ Len(delays) = 1 /\ Len(delays[1].taps) = 1


\* The buffer the update of p reads.
ReadBuffer(p) == IF p.kind \in {"ProjAlignPostMg2", "ProjAlignPost2"} THEN PreBuffer(p)
                 ELSE delays[p.dly]

\* C25: every projection that reads a tap in its update has exactly one tap
\* under its own name, with its own delay, on the buffer the update reads;
\* no update fails with a lookup error, and every projection has been updated
\* in every step when the run ends.
C25_TapKnown ==
  /\ err # "lookup"
  /\ \A i \in DOMAIN projs :
       LET p == projs[i]
       IN ReadsTap(p) =>
            /\ p.kind \in {"ProjAlignPostMg2", "ProjAlignPost2"} =>
                 HasKey(aft[p.pre], _pre_delay_repr)
            /\ Cardinality(TapsNamed(ReadBuffer(p), NameKey(p.name))) = 1
            /\ TapOff(ReadBuffer(p), NameKey(p.name)) = DelaySteps(p.delay)
            /\ pc = "done" => p.n = MaxSteps

\* A ProjAlignPostMg2 and a ProjAlignPreMg1 have read their taps of two
\* steps in every step of the run.
C25_Witness ==
  /\ pc = "done"
  /\ err = "none"
  /\ \E i, j \in DOMAIN projs :
       /\ projs[i].kind = "ProjAlignPostMg2" /\ projs[j].kind = "ProjAlignPreMg1"
       /\ projs[i].delay = 2 /\ projs[j].delay = 2
       /\ projs[i].n = MaxSteps /\ projs[j].n = MaxSteps
       /\ projs[i].x = Stamp(projs[i].pre, MaxSteps - 3)
       /\ projs[j].x = syns[projs[j].syn].hist[MaxSteps - 2]


\* Projection i is a managed post-aligned projection that shares its unit
\* with no other, and j is its explicit counterpart: the synapse and the
\* output of the same class and parameters, and for ProjAlignPostMg2 and
\* ProjAlignPost2 the same source and the same delay.
Unshared(i) ==
  \A k \in ManagedOn(projs[i].post) : SameDesc(i, k) => k = i
Counterparts(i, j, mg, ex) ==
  /\ projs[i].kind = mg /\ projs[j].kind = ex
  /\ Unshared(i)
  /\ Identifier(projs[i].sarg) = Identifier(projs[j].sarg)
  /\ Identifier(projs[i].oarg) = Identifier(projs[j].oarg)
  /\ projs[i].comm = projs[j].comm
  /\ projs[i].pre = projs[j].pre
  /\ projs[i].delay = projs[j].delay
\* The outputs of i and j have been bound equally often, and to the same
\* value.
BoundAlike(i, j) ==
  outs[projs[i].out].nbind = outs[projs[j].out].nbind =>
    outs[projs[i].out].bound = outs[projs[j].out].bound

\* C26 (as stated): without sharing, a ProjAlignPostMg1 and a ProjAlignPost1,
\* and a ProjAlignPostMg2 and a ProjAlignPost2, with the same inputs bind the
\* same value into the output at every step.
C26_Original ==
  \A i, j \in DOMAIN projs :
    (\/ Counterparts(i, j, "ProjAlignPostMg1", "ProjAlignPost1")
     \/ Counterparts(i, j, "ProjAlignPostMg2", "ProjAlignPost2")) => BoundAlike(i, j)

\* C26 (what holds): without sharing, a ProjAlignPostMg1 and a ProjAlignPost1
\* with the same inputs bind the same value into the output at every step;
\* a ProjAlignPostMg2 binds a step of the synapse over its state with the
\* current added, a ProjAlignPost2 a step of the synapse from its state with
\* the current as its input.
C26_PostMg1AsPost1 ==
  /\ \A i, j \in DOMAIN projs :
       Counterparts(i, j, "ProjAlignPostMg1", "ProjAlignPost1") => BoundAlike(i, j)
  /\ \A j \in DOMAIN projs :
       (projs[j].kind = "ProjAlignPost2" /\ projs[j].n >= 1) =>
         outs[projs[j].out].bound = Decay(projs[j].g0) + Comm(projs[j].x)

\* A ProjAlignPostMg1 and a ProjAlignPost1 have bound the same value in their
\* third step.
C26_Witness ==
  \E i, j \in DOMAIN projs :
    /\ Counterparts(i, j, "ProjAlignPostMg1", "ProjAlignPost1")
    /\ outs[projs[i].out].nbind = 3 /\ outs[projs[j].out].nbind = 3
    /\ outs[projs[i].out].bound = outs[projs[j].out].bound
    /\ outs[projs[i].out].bound > 0

====
